---- MODULE Spec2Model ----
(***************************************************************************)
(* Model of the font derivation tools of chiron-fonts/sub-fonts            *)
(* (src/build_font.py, src/extract_font.py, src/build.py).                 *)
(*                                                                         *)
(* The font object is held in the variables glyphOrder, glyf, hmtx, GSUB,  *)
(* GPOS and cmap; the donor ("Inter") font of a merge is the record        *)
(* inter_font.  Every operation of the source is one action that performs  *)
(* the whole function body.  Each group of operations has its own          *)
(* specification whose Init draws the input font(s) from bounded sets; the *)
(* specification SpecBuild runs build.py: the calls of extract_font and    *)
(* build_font on the font files, each function step by step in the order  *)
(* of its source.                                                          *)
(*                                                                         *)
(* Glyph names are strings; the merge prefix is prepended with \o, as the  *)
(* f-string of merge_inter_font does.                                      *)
(***************************************************************************)
EXTENDS Integers, Sequences, FiniteSets, TLC

VARIABLES
    pc,                         \* position: "start", then the name of the last completed call
    glyphOrder,                 \* font.getGlyphOrder(): sequence of glyph names
    glyf,                       \* font['glyf'].glyphs: glyph name -> glyph (outline)
    hmtx,                       \* font['hmtx'].metrics: glyph name -> <<advance width, lsb>>
    GSUB,                       \* font['GSUB'].table (FeatureList, ScriptList) or None
    GPOS,                       \* font['GPOS'].table (LookupList, FeatureList, ScriptList, heap) or None
    cmap,                       \* font['cmap'].tables: sequence of encoding tables
    inter_gpos_merged,          \* the attribute target_font._inter_gpos_merged
    inter_font,                 \* the donor font opened by merge_inter_font
    cjk_width_extend_percent,   \* config.cjk_width_adjust, in hundredths
    config,                     \* the other arguments of build_font and extract_font
    table_tags,                 \* the tags of the other tables of the font ('fvar', 'STAT', ...)
    info,                       \* font['name'].names and the line-gap fields of 'hhea' and 'OS/2'
    saved,                      \* the font files, as [path, font]: the sources, then those font.save wrote
    calls,                      \* the names of the completed calls, in order
    pre                         \* snapshot of the font taken when the operation starts

vars == <<pc, glyphOrder, glyf, hmtx, GSUB, GPOS, cmap, inter_gpos_merged, inter_font,
          cjk_width_extend_percent, config, table_tags, info, saved, calls, pre>>

\* Python's None, as a record so that it compares with the records standing for objects
None == [isNone |-> TRUE]

merge_font_prefix == "inter_"

\* str.startswith
startswith(s, p) == Len(s) >= Len(p) /\ SubSeq(s, 1, Len(p)) = p

Range(s) == {s[i] : i \in 1..Len(s)}

\* Python's int(): truncation toward zero of the quotient n/d (d > 0)
int_div(n, d) == IF n >= 0 THEN n \div d ELSE -((-n) \div d)

\* hasattr on an object held as the record of its attributes
hasattr(obj, attr) == attr \in DOMAIN obj

SetMin(S) == CHOOSE x \in S : \A y \in S : x <= y
SetMax(S) == CHOOSE x \in S : \A y \in S : x >= y

\* the lists of a list of lists, one after the other
RECURSIVE concatenated(_)
concatenated(lists) ==
    IF lists = <<>> THEN <<>> ELSE Head(lists) \o concatenated(Tail(lists))

-----------------------------------------------------------------------------
(* Glyphs, pens and transforms: the fontTools objects the source draws with. *)
(*                                                                         *)
(* A glyph of the glyf table is a record of numberOfContours (-1 for a     *)
(* composite) and either coordinates, the points <<x, y>> of its contours  *)
(* in order (every contour starts at an on-curve point, so that drawing it *)
(* into a pen keeps the order of the points), or components, a list of     *)
(* [glyphName, x, y].  A glyph read from a font file with an outline also  *)
(* has the bounds xMin, yMin, xMax, yMax of its header; a glyph built by a *)
(* pen has no bounds until recalcBounds is called or the font is saved.    *)

isComposite(glyph) == glyph.numberOfContours = -1

\* Transform(xx, xy, yx, yy, dx, dy) with the six coefficients as numerators over den
Transform(xx, xy, yx, yy, dx, dy, den) ==
    [xx |-> xx, xy |-> xy, yx |-> yx, yy |-> yy, dx |-> dx, dy |-> dy, den |-> den]

\* Transform().translate(dx, dy)
translate(dx, dy) == Transform(1, 0, 0, 1, dx, dy, 1)

\* fontTools otRound: floor(v + 0.5), for v = n/d
otRound(n, d) == (2 * n + d) \div (2 * d)

\* Python's round(): the integer nearest to n/d, a tie going to the even one
round(n, d) ==
    LET q == n \div d
        r == n - q * d
    IN  IF 2 * r > d \/ (2 * r = d /\ q % 2 = 1) THEN q + 1 ELSE q

\* TransformPen: (x, y) -> (xx*x + yx*y + dx, xy*x + yy*y + dy); pen.glyph()
\* then rounds the coordinates with otRound
transformed_point(pt, t) ==
    <<otRound(t.xx * pt[1] + t.yx * pt[2] + t.dx, t.den),
      otRound(t.xy * pt[1] + t.yy * pt[2] + t.dy, t.den)>>

\* the points of a contour list moved right by offset and sent through the pens
RECURSIVE transformed_points(_, _, _)
transformed_points(coordinates, offset, t) ==
    IF coordinates = <<>> THEN <<>>
    ELSE <<transformed_point(<<Head(coordinates)[1] + offset, Head(coordinates)[2]>>, t)>>
             \o transformed_points(Tail(coordinates), offset, t)

\* the components of a composite sent through the pens (addComponent)
RECURSIVE transformed_components(_, _)
transformed_components(components, t) ==
    IF components = <<>> THEN <<>>
    ELSE LET at == transformed_point(<<Head(components).x, Head(components).y>>, t)
         IN  <<[glyphName |-> Head(components).glyphName, x |-> at[1], y |-> at[2]]>>
                 \o transformed_components(Tail(components), t)

\* glyph.draw(TransformPen(TTGlyphPen(...), t), glyfTable, offset) followed by
\* pen.glyph(): the glyph the pen builds.  The points of a simple glyph are
\* moved right by offset and transformed; a composite is drawn as its
\* components, for which offset is not used.
drawn_glyph(glyph, offset, t) ==
    IF isComposite(glyph)
    THEN [numberOfContours |-> -1,
          components |-> transformed_components(glyph.components, t)]
    ELSE [numberOfContours |-> glyph.numberOfContours,
          coordinates |-> transformed_points(glyph.coordinates, offset, t)]

\* glyphSet[name].draw: the glyph set draws a glyph that has bounds moved
\* right by lsb - xMin, the lsb being the one of hmtx
glyphSet_offset(glyph, lsb) == IF hasattr(glyph, "xMin") THEN lsb - glyph.xMin ELSE 0

\* glyph.recalcBounds, also done for every glyph when the font is saved: a
\* simple glyph with points gets the bounds of its points
recalcBounds(glyph) ==
    IF isComposite(glyph) \/ glyph.numberOfContours = 0 THEN glyph
    ELSE [numberOfContours |-> glyph.numberOfContours,
          coordinates |-> glyph.coordinates,
          xMin |-> SetMin({glyph.coordinates[i][1] : i \in 1..Len(glyph.coordinates)}),
          yMin |-> SetMin({glyph.coordinates[i][2] : i \in 1..Len(glyph.coordinates)}),
          xMax |-> SetMax({glyph.coordinates[i][1] : i \in 1..Len(glyph.coordinates)}),
          yMax |-> SetMax({glyph.coordinates[i][2] : i \in 1..Len(glyph.coordinates)})]

-----------------------------------------------------------------------------
(* The order of the calls of extract_font (extract_font.py 325-363) and of  *)
(* build_font (build_font.py 107-146).  pc is "start" when an operation is  *)
(* called on its own on a font object, "main" when a program starts, and    *)
(* then the name of the last completed call.                                *)

\* the arguments of an operation called on its own: no stylistic set, no
\* donor font, no punctuation replacement, no transform.  An absent tag is
\* the empty string (the source tests it for truth), an absent path,
\* transform or axis setting is None; a path is the record Path(name), a font
\* name the sequence of its words.  main is the configuration build.py runs
\* with, None when build.py is not what runs.
NoConfig ==
    [main |-> None, input_path |-> None, output_path |-> None,
     apply_stylistic_set |-> "", merge_font_path |-> None, replace_punc |-> 0,
     font_name |-> <<>>, font_version |-> "", new_line_gap |-> 0,
     axis_settings |-> None, transform |-> None,
     cjk_mode_transform |-> FALSE, skip_decomposition |-> FALSE]

\* the name records and line-gap fields of a font whose names and vertical
\* metrics play no part: no name record, every field 0
NoInfo == [names |-> <<>>, lineGap |-> 0, sTypoLineGap |-> 0, usWinAscent |-> 0,
           usWinDescent |-> 0]

\* (variant of extract_font_next that writes the file as soon as the font is
\* opened and transforms afterwards)
extract_font_next_save_first(position, cfg, font_tables) ==
    CASE position = "extract_font" ->
            IF "fvar" \in font_tables /\ cfg.axis_settings = None THEN "ValueError"
            ELSE "save"
      [] position = "save" ->
            IF cfg.transform # None THEN "apply_glyph_transform" ELSE "return"
      [] OTHER -> "return"

\* extract_font.py 335-362: the call that follows position in extract_font
extract_font_next(position, cfg, font_tables) ==
    LET after_decomposition ==
            IF cfg.transform # None THEN "apply_glyph_transform" ELSE "save"      \* 355
        after_instancing ==
            IF cfg.skip_decomposition THEN after_decomposition                  \* 347
            ELSE "decompose_composites"
    IN  CASE position = "extract_font" ->
                IF "fvar" \in font_tables                                        \* 335
                THEN IF cfg.axis_settings = None THEN "ValueError"               \* 336-337
                     ELSE "instantiateVariableFont"
                ELSE after_instancing
          [] position = "instantiateVariableFont" -> "removeOverlaps"            \* 342
          [] position = "removeOverlaps" -> after_instancing
          [] position = "decompose_composites" -> after_decomposition
          [] position = "apply_glyph_transform" ->
                IF cfg.cjk_mode_transform THEN "save" ELSE "apply_gpos_transform" \* 358
          [] position = "apply_gpos_transform" -> "save"                         \* 362
          [] OTHER -> "return"

\* (variant of build_font_next that adjusts the widths right after the font is opened)
build_font_next_width_first(position, cfg) ==
    LET after_width ==
            IF cfg.apply_stylistic_set # "" THEN "apply_stylistic_sets"
            ELSE "remove_stylistic_sets"
        after_locl ==
            IF cfg.merge_font_path # None THEN "merge_inter_font" ELSE "set_font_parameter"
        after_parameter == IF cfg.new_line_gap # 0 THEN "set_line_gap" ELSE "save"
    IN  CASE position = "build_font" -> "process_glyphs"
          [] position = "process_glyphs" -> after_width
          [] position = "apply_stylistic_sets" -> "remove_stylistic_sets"
          [] position = "remove_stylistic_sets" -> "remove_font_tables"
          [] position = "remove_font_tables" -> "remove_locl_feature"
          [] position = "remove_locl_feature" -> after_locl
          [] position = "merge_inter_font" -> "set_font_parameter"
          [] position = "set_font_parameter" -> after_parameter
          [] position = "set_line_gap" -> "save"
          [] OTHER -> "return"

\* build_font.py 114-146: the call that follows position in build_font
build_font_next(position, cfg) ==
    LET after_locl ==
            IF cfg.merge_font_path # None THEN "merge_inter_font"               \* 128
            ELSE "process_glyphs"
        after_parameter == IF cfg.new_line_gap # 0 THEN "set_line_gap" ELSE "save" \* 141
    IN  CASE position = "build_font" ->
                IF cfg.apply_stylistic_set # "" THEN "apply_stylistic_sets"      \* 114
                ELSE "remove_stylistic_sets"
          [] position = "apply_stylistic_sets" -> "remove_stylistic_sets"        \* 119
          [] position = "remove_stylistic_sets" -> "remove_font_tables"          \* 123
          [] position = "remove_font_tables" -> "remove_locl_feature"            \* 126
          [] position = "remove_locl_feature" -> after_locl
          [] position = "merge_inter_font" -> "process_glyphs"                   \* 133
          [] position = "process_glyphs" -> "set_font_parameter"                 \* 139
          [] position = "set_font_parameter" -> after_parameter
          [] position = "set_line_gap" -> "save"                                 \* 146
          [] OTHER -> "return"

\* the function whose body is running: the last of extract_font and
\* build_font among the completed calls, "" when neither was called
running ==
    LET entries == {i \in 1..Len(calls) : calls[i] \in {"extract_font", "build_font"}}
    IN  IF entries = {} THEN "" ELSE calls[SetMax(entries)]

\* the next call of the running function, "" when an operation is called on its own
next_call ==
    CASE running = "extract_font" -> extract_font_next(pc, config, table_tags)
      [] running = "build_font" -> build_font_next(pc, config)
      [] OTHER -> ""

-----------------------------------------------------------------------------
(* Bounds of the width-adjustment inputs *)
MaxWidth == 1003
MaxLsb == 41
MaxPercent == 33

WidthChoices == {500} \cup (999..MaxWidth)
LsbChoices == {-30, 0, MaxLsb}
PercentChoices == {0, 7, 12, MaxPercent}
WidthGlyphOrder == <<"uni4E00", "A", "inter_A">>

-----------------------------------------------------------------------------
(* process_glyphs (build_font.py 30-58) *)

\* line 44: expand = int(width * cjk_width_extend_percent / 2); the percent is in hundredths
expand_of(width, percent) == int_div(width * percent, 200)

\* line 46: shift = int(expand / 2), computed and used by no later statement
shift_of(expand) == int_div(expand, 2)

\* (variant of is_processed that forgets the merge-prefix test)
is_processed_no_prefix_test(glyph_name, width) == width >= 1000

\* line 43: the glyph is treated as a CJK glyph
is_processed(glyph_name, width) ==
    width >= 1000 /\ ~startswith(glyph_name, merge_font_prefix)

\* (variant of adjusted_metric that adds shift instead of expand to the lsb)
adjusted_metric_with_shift(width, lsb, percent) ==
    LET expand == expand_of(width, percent)
    IN  <<width + expand * 2, lsb + shift_of(expand)>>

\* line 53: hmtx[glyph_name] = (width + expand * 2, lsb + expand)
adjusted_metric(width, lsb, percent) ==
    LET expand == expand_of(width, percent)
    IN  <<width + expand * 2, lsb + expand>>

\* lines 48-52: the outline of a processed glyph is drawn from the glyph set
\* through TransformPen with Transform().translate(0, 0) into a new glyph
redrawn_glyph(glyph, lsb) == drawn_glyph(glyph, glyphSet_offset(glyph, lsb), translate(0, 0))

\* lines 37-56: the loop over the glyph order; each iteration reads and writes
\* only the outline and the metric of its own glyph
process_glyphs ==
    /\ pc = "start" \/ next_call = "process_glyphs"
    /\ pre' = [hmtx |-> hmtx, glyf |-> glyf]
    /\ glyf' = [g \in DOMAIN glyf |->
                   IF g \in Range(glyphOrder) /\ is_processed(g, hmtx[g][1])
                   THEN redrawn_glyph(glyf[g], hmtx[g][2])
                   ELSE glyf[g]]
    /\ hmtx' = [g \in DOMAIN hmtx |->
                   IF g \in Range(glyphOrder) /\ is_processed(g, hmtx[g][1])
                   THEN adjusted_metric(hmtx[g][1], hmtx[g][2], cjk_width_extend_percent)
                   ELSE hmtx[g]]
    /\ pc' = "process_glyphs"
    /\ calls' = Append(calls, "process_glyphs")
    /\ UNCHANGED <<glyphOrder, GSUB, GPOS, cmap, inter_gpos_merged, inter_font,
                   cjk_width_extend_percent, config, table_tags, info, saved>>

\* glyphs as read from a font file
SimpleGlyph(coordinates) == recalcBounds([numberOfContours |-> 1, coordinates |-> coordinates])

CompositeGlyph(components, bounds) ==
    [numberOfContours |-> -1, components |-> components,
     xMin |-> bounds[1], yMin |-> bounds[2], xMax |-> bounds[3], yMax |-> bounds[4]]

EmptyGlyph == [numberOfContours |-> 0, coordinates |-> <<>>]

\* the glyphs of the width-adjustment inputs: uni4E00 has an outline that
\* starts at x = 0 or is a composite of A
WidthGlyphChoices ==
    {SimpleGlyph(<<<<0, -100>>, <<900, 800>>>>),
     CompositeGlyph(<<[glyphName |-> "A", x |-> 20, y |-> 0]>>, <<20, 0, 420, 700>>)}

InitWidth ==
    /\ pc = "start"
    /\ glyphOrder = WidthGlyphOrder
    /\ \E g \in WidthGlyphChoices :
          glyf = [n \in Range(WidthGlyphOrder) |->
                     IF n = "uni4E00" THEN g ELSE SimpleGlyph(<<<<0, 0>>, <<400, 700>>>>)]
    /\ hmtx \in [Range(WidthGlyphOrder) -> WidthChoices \X LsbChoices]
    /\ cjk_width_extend_percent \in PercentChoices
    /\ pre = [hmtx |-> hmtx, glyf |-> glyf]
    /\ GSUB = None
    /\ GPOS = None
    /\ cmap = <<>>
    /\ inter_gpos_merged = FALSE
    /\ inter_font = None
    /\ config = NoConfig
    /\ table_tags = {}
    /\ info = NoInfo
    /\ saved = <<>>
    /\ calls = <<>>

NextWidth == process_glyphs

SpecWidth == InitWidth /\ [][NextWidth]_vars

\* floor(width * fraction / 2) for the fraction percent/100, written out
FloorHalfFraction(width, percent) == (width * percent) \div 200

\* the glyphs the width adjustment is specified to process
WidthProcessed(g) ==
    pre.hmtx[g][1] >= 1000 /\ ~(Len(g) >= 6 /\ SubSeq(g, 1, 6) = "inter_")

\* C5 as stated: the new left side-bearing of every processed glyph is
\* old_lsb + floor(expand/2) with expand = floor(old_width*fraction/2).
C5_LsbGrowsByHalfExpand ==
    pc = "process_glyphs" =>
        \A g \in Range(glyphOrder) :
            WidthProcessed(g) =>
                hmtx[g][2] = pre.hmtx[g][2]
                    + (FloorHalfFraction(pre.hmtx[g][1], cjk_width_extend_percent) \div 2)

\* C5 amended: the new left side-bearing of every processed glyph is
\* old_lsb + expand with expand = floor(old_width*fraction/2), i.e. the
\* glyph gains expand units on its left and expand units on its right.
C5_LsbGrowsByExpand ==
    pc = "process_glyphs" =>
        \A g \in Range(glyphOrder) :
            WidthProcessed(g) =>
                hmtx[g][2] = pre.hmtx[g][2]
                    + FloorHalfFraction(pre.hmtx[g][1], cjk_width_extend_percent)

\* a processed glyph whose expand is odd and positive, so that expand,
\* floor(expand/2) and 0 are three different increments
C5_Witness ==
    /\ pc = "process_glyphs"
    /\ \E g \in Range(glyphOrder) :
          /\ WidthProcessed(g)
          /\ FloorHalfFraction(pre.hmtx[g][1], cjk_width_extend_percent) % 2 = 1
          /\ hmtx[g][2] # pre.hmtx[g][2]

\* C6: every processed glyph gets the advance width
\* old_width + 2*floor(old_width*fraction/2); a glyph narrower than 1000 or
\* with a merge-prefixed name keeps its advance width and left side-bearing.
C6_WidthAdjusted ==
    pc = "process_glyphs" =>
        \A g \in Range(glyphOrder) :
            IF WidthProcessed(g)
            THEN hmtx[g][1] = pre.hmtx[g][1]
                    + 2 * FloorHalfFraction(pre.hmtx[g][1], cjk_width_extend_percent)
            ELSE hmtx[g] = pre.hmtx[g]

\* one run with a widened glyph, a narrow glyph and a wide merge-prefixed glyph
C6_Witness ==
    /\ pc = "process_glyphs"
    /\ hmtx["uni4E00"][1] > pre.hmtx["uni4E00"][1]
    /\ pre.hmtx["A"][1] < 1000
    /\ pre.hmtx["inter_A"][1] > 1000
    /\ hmtx["inter_A"] = pre.hmtx["inter_A"]

\* the outline of a glyph: the points of its contours, or its component list
Outline(glyph) ==
    IF glyph.numberOfContours = -1 THEN [components |-> glyph.components]
    ELSE [numberOfContours |-> glyph.numberOfContours, coordinates |-> glyph.coordinates]

\* C16: the width adjustment changes metrics only: after process_glyphs the
\* outline of every glyph, processed or not, is the outline it had before.
C16_OutlinesKept ==
    pc = "process_glyphs" =>
        \A g \in Range(glyphOrder) : Outline(glyf[g]) = Outline(pre.glyf[g])

-----------------------------------------------------------------------------
(* Bounds of the substitution-table inputs *)
MaxFeatures == 3

FeatureTagChoices == {"ss01", "ss20", "locl", "liga"}

\* Python lists are indexed from 0
At(list, i) == list[i + 1]
Indices(list) == 0..(Len(list) - 1)

\* the ascending list of a set of indices
RECURSIVE SortedList(_)
SortedList(S) ==
    IF S = {} THEN <<>>
    ELSE LET m == CHOOSE x \in S : \A y \in S : x <= y
         IN  <<m>> \o SortedList(S \ {m})

\* [x for x in list if x not in removed]
list_without(list, removed) ==
    LET kept == SortedList({i \in 1..Len(list) : list[i] \notin removed})
    IN  [k \in 1..Len(kept) |-> list[kept[k]]]

-----------------------------------------------------------------------------
(* remove_stylistic_sets (build_font.py 189-212), remove_locl_feature (215-242) *)

\* str(i).zfill(2) for 1 <= i <= 99
zfill2(i) ==
    LET digit == <<"0", "1", "2", "3", "4", "5", "6", "7", "8", "9">>
    IN  digit[(i \div 10) + 1] \o digit[(i % 10) + 1]

\* line 199: ssXX_tags = [f'ss{str(i).zfill(2)}' for i in range(1, 21)]
ssXX_tags == {"ss" \o zfill2(i) : i \in 1..20}

\* lines 200-201, 225-226: the indices of the feature records with a tag among tags
tagged_indices(featureRecord, tags) ==
    {i \in Indices(featureRecord) : At(featureRecord, i).FeatureTag \in tags}

\* lines 204-205, 232-233: the feature records at the other indices
records_without(featureRecord, indices) ==
    LET kept == SortedList(Indices(featureRecord) \ indices)
    IN  [k \in 1..Len(kept) |-> At(featureRecord, kept[k])]

\* lines 212, 241: langSys.FeatureIndex = [idx for idx in langSys.FeatureIndex if idx not in indices]
langsys_without(langSys, indices) ==
    IF langSys = None THEN None
    ELSE [langSys EXCEPT !.FeatureIndex =
              list_without(langSys.FeatureIndex, indices)]

\* lines 207-212, 235-241: every script record, its default language system
\* (skipped when None) and each of its language-system records
scripts_without(scriptRecord, indices) ==
    [s \in 1..Len(scriptRecord) |->
        [scriptRecord[s] EXCEPT
            !.DefaultLangSys = langsys_without(@, indices),
            !.LangSysRecord = [l \in 1..Len(@) |-> langsys_without(@[l], indices)]]]

\* the table with the feature records at indices removed
gsub_without(gsub, indices) ==
    [gsub EXCEPT !.FeatureRecord = records_without(@, indices),
                 !.ScriptRecord = scripts_without(@, indices)]

remove_stylistic_sets ==
    /\ pc = "start" \/ next_call = "remove_stylistic_sets"
    /\ pre' = [GSUB |-> GSUB]
    /\ GSUB' = IF GSUB = None THEN None                      \* lines 193-195
               ELSE gsub_without(GSUB, tagged_indices(GSUB.FeatureRecord, ssXX_tags))
    /\ pc' = "remove_stylistic_sets"
    /\ calls' = Append(calls, "remove_stylistic_sets")
    /\ UNCHANGED <<glyphOrder, glyf, hmtx, GPOS, cmap, inter_gpos_merged, inter_font,
                   cjk_width_extend_percent, config, table_tags, info, saved>>

remove_locl_feature ==
    /\ \/ running = "" /\ pc \in {"start", "remove_stylistic_sets"}
       \/ next_call = "remove_locl_feature"
    /\ pre' = [GSUB |-> GSUB]
    /\ GSUB' = IF GSUB = None THEN None                      \* lines 219-221
               ELSE IF tagged_indices(GSUB.FeatureRecord, {"locl"}) = {}
                    THEN GSUB                                \* lines 227-229
               ELSE gsub_without(GSUB, tagged_indices(GSUB.FeatureRecord, {"locl"}))
    /\ pc' = "remove_locl_feature"
    /\ calls' = Append(calls, "remove_locl_feature")
    /\ UNCHANGED <<glyphOrder, glyf, hmtx, GPOS, cmap, inter_gpos_merged, inter_font,
                   cjk_width_extend_percent, config, table_tags, info, saved>>

\* a language system over n features: an ascending list of distinct feature indices
LangSysChoices(n) == {[FeatureIndex |-> SortedList(S)] : S \in SUBSET (0..(n - 1))}

\* a substitution table with n features of the given tags and one script that
\* has a default language system (or None) and a list of language-system
\* records; Feature stands for the feature's own data (its lookup list),
\* distinct per record
GsubTable(n, tags, defaultLangSys, langSysRecord) ==
    [FeatureRecord |-> [i \in 1..n |-> [FeatureTag |-> tags[i], Feature |-> i]],
     ScriptRecord |-> <<[ScriptTag |-> "DFLT",
                         DefaultLangSys |-> defaultLangSys,
                         LangSysRecord |-> langSysRecord]>>]

\* the font has no substitution table, or one with 1..MaxFeatures features
\* and at most one language-system record
InitGsub ==
    /\ pc = "start"
    /\ \/ GSUB = None
       \/ \E n \in 1..MaxFeatures :
             \E tags \in [1..n -> FeatureTagChoices],
                d \in {None} \cup LangSysChoices(n),
                l \in {<<>>} \cup {<<x>> : x \in LangSysChoices(n)} :
                 GSUB = GsubTable(n, tags, d, l)
    /\ pre = [GSUB |-> GSUB]
    /\ glyphOrder = <<>>
    /\ glyf = <<>>
    /\ hmtx = <<>>
    /\ config = NoConfig
    /\ table_tags = {}
    /\ info = NoInfo
    /\ saved = <<>>
    /\ calls = <<>>
    /\ GPOS = None
    /\ cmap = <<>>
    /\ inter_gpos_merged = FALSE
    /\ inter_font = None
    /\ cjk_width_extend_percent = 0

NextGsub == remove_stylistic_sets \/ remove_locl_feature

SpecGsub == InitGsub /\ [][NextGsub]_vars

\* the language systems of a substitution table, as <<script, 0>> for the
\* default one and <<script, l>> for the l-th language-system record
LangSysKeys(gsub) ==
    {<<s, l>> \in (1..Len(gsub.ScriptRecord)) \X (0..1) :
        IF l = 0 THEN gsub.ScriptRecord[s].DefaultLangSys # None
        ELSE l <= Len(gsub.ScriptRecord[s].LangSysRecord)}

LangSysAt(gsub, k) ==
    IF k[2] = 0 THEN gsub.ScriptRecord[k[1]].DefaultLangSys
    ELSE gsub.ScriptRecord[k[1]].LangSysRecord[k[2]]

\* C3: after remove_stylistic_sets no feature record tagged ss01..ss20 remains
\* and every feature index of every language system is below the number of
\* remaining feature records.
C3_PrunedAndInRange ==
    (pc = "remove_stylistic_sets" /\ GSUB # None) =>
        /\ \A i \in 1..Len(GSUB.FeatureRecord) :
              GSUB.FeatureRecord[i].FeatureTag \notin
                  {"ss01", "ss02", "ss03", "ss04", "ss05", "ss06", "ss07", "ss08", "ss09", "ss10",
                   "ss11", "ss12", "ss13", "ss14", "ss15", "ss16", "ss17", "ss18", "ss19", "ss20"}
        /\ \A k \in LangSysKeys(GSUB) :
              \A j \in 1..Len(LangSysAt(GSUB, k).FeatureIndex) :
                  LangSysAt(GSUB, k).FeatureIndex[j] < Len(GSUB.FeatureRecord)

\* the feature records a language system designates, in list order; an index
\* out of range designates nothing
Designated(gsub, langSys) ==
    [j \in 1..Len(langSys.FeatureIndex) |->
        IF langSys.FeatureIndex[j] \in Indices(gsub.FeatureRecord)
        THEN At(gsub.FeatureRecord, langSys.FeatureIndex[j])
        ELSE None]

\* C4: after either pruning pass every language system designates, through its
\* kept indices, the same feature records as before the pass minus the removed
\* ones.
C4_IndicesRenumbered ==
    (pc \in {"remove_stylistic_sets", "remove_locl_feature"} /\ GSUB # None) =>
        \A k \in LangSysKeys(GSUB) :
            Designated(GSUB, LangSysAt(GSUB, k)) =
                list_without(Designated(pre.GSUB, LangSysAt(pre.GSUB, k)),
                             Range(pre.GSUB.FeatureRecord) \ Range(GSUB.FeatureRecord))

-----------------------------------------------------------------------------
(* apply_glyph_transform (extract_font.py 100-169)                          *)
(*                                                                         *)
(* The transform and the mode are the arguments of the call, held in       *)
(* config.  A transform is Transform(xx, xy, yx, yy, dx, dy, den): the six  *)
(* numbers of the matrix as numerators over den, so that xx = 47, den = 100 *)
(* is a horizontal scale of 0.47.                                          *)

\* (variant of transformed_metric that truncates the scaled metrics)
transformed_metric_truncated(metric, t) ==
    <<(metric[1] * t.xx) \div t.den, (metric[2] * t.xx) \div t.den>>

\* lines 158-163: int(round(advanceWidth * xScale)), int(round(lsb * xScale + 0 * ySkew))
transformed_metric(metric, t) ==
    <<round(metric[1] * t.xx, t.den), round(metric[2] * t.xx, t.den)>>

\* (variant of cjk_mode_skips that passes over no glyph with metrics)
cjk_mode_skips_nothing(metrics, glyph_name) ==
    glyph_name \notin DOMAIN metrics

\* lines 128-140: in CJK mode a glyph is passed over unless it has an hmtx
\* entry with an advance width of 1000
cjk_mode_skips(metrics, glyph_name) ==
    IF glyph_name \in DOMAIN metrics THEN metrics[glyph_name][1] # 1000 ELSE TRUE

\* lines 123-163: the loop over the glyph order on st = [glyf, hmtx, raised];
\* it ends at the first composite glyph, with the glyphs before it rewritten,
\* and so it does outside CJK mode at a glyph with contours that has no hmtx
\* entry, which the glyph set cannot give
RECURSIVE transformed_glyphs(_, _, _, _)
transformed_glyphs(st, names, t, cjk_mode_transform) ==
    IF names = <<>> THEN st
    ELSE LET glyph_name == Head(names)
             g == st.glyf[glyph_name]
             drawn == drawn_glyph(g, glyphSet_offset(g, st.hmtx[glyph_name][2]), t)
             new_glyph == IF cjk_mode_transform THEN drawn ELSE recalcBounds(drawn)  \* 148-152
             with_outline ==
                 IF g.numberOfContours > 0                                           \* 142
                 THEN [st EXCEPT !.glyf[glyph_name] = new_glyph]
                 ELSE st
             with_metrics ==
                 IF ~cjk_mode_transform /\ glyph_name \in DOMAIN st.hmtx             \* 156-157
                 THEN [with_outline EXCEPT
                          !.hmtx[glyph_name] = transformed_metric(st.hmtx[glyph_name], t)]
                 ELSE with_outline
         IN  IF isComposite(g) THEN [st EXCEPT !.raised = "ValueError"]              \* 125-126
             ELSE IF ~cjk_mode_transform /\ g.numberOfContours > 0
                     /\ glyph_name \notin DOMAIN st.hmtx
                  THEN [st EXCEPT !.raised = "KeyError"]     \* 145: glyph_set[glyph_name]
             ELSE IF cjk_mode_transform /\ cjk_mode_skips(st.hmtx, glyph_name)
                  THEN transformed_glyphs(st, Tail(names), t, cjk_mode_transform)
                  ELSE transformed_glyphs(with_metrics, Tail(names), t, cjk_mode_transform)

apply_glyph_transform ==
    /\ (pc = "start" /\ config.transform # None) \/ next_call = "apply_glyph_transform"
    /\ pre' = [glyf |-> glyf, hmtx |-> hmtx, GPOS |-> GPOS]
    /\ LET st == transformed_glyphs([glyf |-> glyf, hmtx |-> hmtx, raised |-> ""],
                                    glyphOrder, config.transform, config.cjk_mode_transform)
       IN  /\ glyf' = st.glyf
           /\ hmtx' = st.hmtx
           /\ pc' = IF st.raised # "" THEN st.raised ELSE "apply_glyph_transform"
           /\ calls' = IF st.raised # "" THEN calls ELSE Append(calls, "apply_glyph_transform")
    /\ UNCHANGED <<glyphOrder, GSUB, GPOS, cmap, inter_gpos_merged, inter_font,
                   cjk_width_extend_percent, config, table_tags, info, saved>>

-----------------------------------------------------------------------------
(* apply_gpos_transform (extract_font.py 172-322)                           *)
(*                                                                         *)
(* Here a lookup has its subtables in place, as a font read from a file    *)
(* has them: every value record and every anchor is an object of its own.  *)
(* A value record or an anchor is the record of the fields it has, or None. *)

\* (variant of adjust_value_record that translates the advances too)
adjust_value_record_advance_translated(vr, t) ==
    IF vr = None THEN None
    ELSE [f \in DOMAIN vr |->
            CASE f = "XPlacement" -> round(vr[f] * t.xx + t.dx, t.den)
              [] f = "YPlacement" -> round(vr[f] * t.yy + t.dy, t.den)
              [] f = "XAdvance" -> round(vr[f] * t.xx + t.dx, t.den)
              [] f = "YAdvance" -> round(vr[f] * t.yy + t.dy, t.den)
              [] OTHER -> vr[f]]

\* lines 193-218
adjust_value_record(vr, t) ==
    IF vr = None THEN None
    ELSE [f \in DOMAIN vr |->
            CASE f = "XPlacement" -> round(vr[f] * t.xx + t.dx, t.den)
              [] f = "YPlacement" -> round(vr[f] * t.yy + t.dy, t.den)
              [] f = "XAdvance" -> round(vr[f] * t.xx, t.den)
              [] f = "YAdvance" -> round(vr[f] * t.yy, t.den)
              [] OTHER -> vr[f]]

\* lines 221-235
adjust_anchor(anchor, t) ==
    IF anchor = None THEN None
    ELSE [f \in DOMAIN anchor |->
            CASE f = "XCoordinate" -> round(anchor[f] * t.xx + t.dx, t.den)
              [] f = "YCoordinate" -> round(anchor[f] * t.yy + t.dy, t.den)
              [] OTHER -> anchor[f]]

RECURSIVE adjust_value_records(_, _)
adjust_value_records(records, t) ==
    IF records = <<>> THEN <<>>
    ELSE <<adjust_value_record(Head(records), t)>> \o adjust_value_records(Tail(records), t)

RECURSIVE adjust_anchors(_, _)
adjust_anchors(anchors, t) ==
    IF anchors = <<>> THEN <<>>
    ELSE <<adjust_anchor(Head(anchors), t)>> \o adjust_anchors(Tail(anchors), t)

\* lines 259-264 and 266-271: the records of a PairSet or of a Class1Record,
\* Value1 and Value2 of each
RECURSIVE adjust_pair_records(_, _)
adjust_pair_records(records, t) ==
    IF records = <<>> THEN <<>>
    ELSE <<[Head(records) EXCEPT !.Value1 = adjust_value_record(@, t),
                                 !.Value2 = adjust_value_record(@, t)]>>
             \o adjust_pair_records(Tail(records), t)

\* the records of an array that hold a list of anchors under field, or one
\* anchor under it (MarkRecord.MarkAnchor)
RECURSIVE adjust_anchor_records(_, _, _)
adjust_anchor_records(records, field, t) ==
    IF records = <<>> THEN <<>>
    ELSE <<[Head(records) EXCEPT ![field] = IF field = "MarkAnchor" THEN adjust_anchor(@, t)
                                            ELSE adjust_anchors(@, t)]>>
             \o adjust_anchor_records(Tail(records), field, t)

\* lines 255, 262, 268: the PairSets or Class1Records of a pair subtable
RECURSIVE adjust_pair_sets(_, _, _)
adjust_pair_sets(sets, field, t) ==
    IF sets = <<>> THEN <<>>
    ELSE <<[Head(sets) EXCEPT ![field] = adjust_pair_records(@, t)]>>
             \o adjust_pair_sets(Tail(sets), field, t)

\* lines 275-279
RECURSIVE adjust_entry_exit_records(_, _)
adjust_entry_exit_records(records, t) ==
    IF records = <<>> THEN <<>>
    ELSE <<[Head(records) EXCEPT !.EntryAnchor = adjust_anchor(@, t),
                                 !.ExitAnchor = adjust_anchor(@, t)]>>
             \o adjust_entry_exit_records(Tail(records), t)

\* lines 303-308
RECURSIVE adjust_ligature_attach(_, _)
adjust_ligature_attach(attaches, t) ==
    IF attaches = <<>> THEN <<>>
    ELSE <<[Head(attaches) EXCEPT
               !.ComponentRecord = adjust_anchor_records(@, "LigatureAnchor", t)]>>
             \o adjust_ligature_attach(Tail(attaches), t)

\* lines 246-316: one subtable of a lookup of type ltype
adjust_subtable(sub, ltype, t) ==
    CASE ltype = 1 /\ sub.Format = 1 -> [sub EXCEPT !.Value = adjust_value_record(@, t)]
      [] ltype = 1 /\ sub.Format = 2 -> [sub EXCEPT !.Value = adjust_value_records(@, t)]
      [] ltype = 2 /\ sub.Format = 1 ->
            [sub EXCEPT !.PairSet = adjust_pair_sets(@, "PairValueRecord", t)]
      [] ltype = 2 /\ sub.Format = 2 ->
            [sub EXCEPT !.Class1Record = adjust_pair_sets(@, "Class2Record", t)]
      [] ltype = 3 ->
            [sub EXCEPT !.EntryExitRecord = adjust_entry_exit_records(@, t)]
      [] ltype = 4 ->
            [sub EXCEPT !.MarkArray.MarkRecord = adjust_anchor_records(@, "MarkAnchor", t),
                        !.BaseArray.BaseRecord = adjust_anchor_records(@, "BaseAnchor", t)]
      [] ltype = 5 ->
            [sub EXCEPT !.MarkArray.MarkRecord = adjust_anchor_records(@, "MarkAnchor", t),
                        !.LigatureArray.LigatureAttach = adjust_ligature_attach(@, t)]
      [] ltype = 6 ->
            [sub EXCEPT !.Mark1Array.MarkRecord = adjust_anchor_records(@, "MarkAnchor", t),
                        !.Mark2Array.Mark2Record = adjust_anchor_records(@, "Mark2Anchor", t)]
      [] OTHER -> sub                                                          \* 315-316

RECURSIVE adjust_subtables(_, _, _)
adjust_subtables(subtables, ltype, t) ==
    IF subtables = <<>> THEN <<>>
    ELSE <<adjust_subtable(Head(subtables), ltype, t)>>
             \o adjust_subtables(Tail(subtables), ltype, t)

\* lines 240-244: every lookup of the lookup list
RECURSIVE adjust_lookups(_, _)
adjust_lookups(lookups, t) ==
    IF lookups = <<>> THEN <<>>
    ELSE <<[Head(lookups) EXCEPT !.SubTable = adjust_subtables(@, Head(lookups).LookupType, t)]>>
             \o adjust_lookups(Tail(lookups), t)

apply_gpos_transform ==
    /\ (pc = "start" /\ config.transform # None) \/ next_call = "apply_gpos_transform"
    /\ pre' = [glyf |-> glyf, hmtx |-> hmtx, GPOS |-> GPOS]
    /\ GPOS' = IF GPOS = None THEN None                                        \* 178-181
               ELSE [GPOS EXCEPT !.LookupList = adjust_lookups(@, config.transform)]
    /\ pc' = "apply_gpos_transform"
    /\ calls' = Append(calls, "apply_gpos_transform")
    /\ UNCHANGED <<glyphOrder, glyf, hmtx, GSUB, cmap, inter_gpos_merged, inter_font,
                   cjk_width_extend_percent, config, table_tags, info, saved>>

-----------------------------------------------------------------------------
(* The transforms called on their own *)

\* Bounds of the transform inputs: the largest advance width and left side
\* bearing of the Latin glyph
MaxTransformWidth == 1001
MaxTransformLsb == 50

\* scaling by 0.47; scaling by 0.5 with skew and translation; the identity;
\* different horizontal and vertical scales with the other skew
TransformChoices ==
    {Transform(47, 0, 0, 47, 0, 0, 100),
     Transform(50, 20, 0, 50, 3000, -500, 100),
     Transform(100, 0, 0, 100, 0, 0, 100),
     Transform(90, 0, 25, 47, 1000, 0, 100)}

\* a positioning table of one single-adjustment lookup
OneValueGpos ==
    [LookupList |-> <<[LookupType |-> 1,
                       SubTable |-> <<[Format |-> 1,
                                       Value |-> [XPlacement |-> 10, XAdvance |-> 50]]>>]>>]

InitTransform ==
    /\ pc = "start"
    /\ glyphOrder \in {<<"A", "uni4E00", "space">>, <<"A", "uni4E00", "Aacute", "space">>,
                       <<"A", "uni4E00", "orphan", "space">>}
    /\ \E w \in {0, 100, 2000} \cup ((MaxTransformWidth - 2)..MaxTransformWidth),
          l \in {-3, 0, 100} \cup ((MaxTransformLsb - 1)..MaxTransformLsb),
          space_width \in {250, 1000}, composite_width \in {600, 1000} :
              /\ hmtx = [g \in Range(glyphOrder) \ {"orphan"} |->
                            CASE g = "A" -> <<w, l>>
                              [] g = "uni4E00" -> <<1000, 50>>
                              [] g = "Aacute" -> <<composite_width, 20>>
                              [] OTHER -> <<space_width, 0>>]
              /\ glyf = [g \in Range(glyphOrder) |->
                            CASE g = "A" -> SimpleGlyph(<<<<20, 0>>, <<420, 700>>>>)
                              [] g = "uni4E00" -> SimpleGlyph(<<<<50, -100>>, <<950, 800>>>>)
                              [] g = "orphan" -> SimpleGlyph(<<<<0, 0>>, <<100, 100>>>>)
                              [] g = "Aacute" ->
                                    CompositeGlyph(<<[glyphName |-> "A", x |-> 0, y |-> 0]>>,
                                                   <<20, 0, 420, 700>>)
                              [] OTHER -> EmptyGlyph]
    /\ GSUB = None
    /\ GPOS \in {None, OneValueGpos}
    /\ cmap = <<>>
    /\ inter_gpos_merged = FALSE
    /\ inter_font = None
    /\ cjk_width_extend_percent = 0
    /\ \E t \in TransformChoices, cjk_mode_transform \in BOOLEAN :
          config = [NoConfig EXCEPT !.transform = t,
                                    !.cjk_mode_transform = cjk_mode_transform]
    /\ table_tags = {}
    /\ info = NoInfo
    /\ saved = <<>>
    /\ calls = <<>>
    /\ pre = [glyf |-> glyf, hmtx |-> hmtx, GPOS |-> GPOS]

NextTransform == apply_glyph_transform

SpecTransform == InitTransform /\ [][NextTransform]_vars

\* C17: after apply_glyph_transform with cjk_mode_transform, also when it
\* ended at a composite glyph, a glyph whose outline differs from the one
\* before the call has an advance width of exactly 1000, every glyph has the
\* advance width and left side bearing it had, and GPOS is what it was.
C17_CjkModeKeepsMetrics ==
    (pc \in {"apply_glyph_transform", "ValueError"} /\ config.cjk_mode_transform) =>
        /\ \A g \in Range(glyphOrder) :
              Outline(glyf[g]) # Outline(pre.glyf[g]) =>
                  g \in DOMAIN pre.hmtx /\ pre.hmtx[g][1] = 1000
        /\ hmtx = pre.hmtx
        /\ GPOS = pre.GPOS

\* a glyph of width 1000 got a new outline while a glyph of another width, with
\* contours as well, kept its outline
C17_Witness ==
    /\ pc = "apply_glyph_transform" /\ config.cjk_mode_transform
    /\ GPOS # None
    /\ Outline(glyf["uni4E00"]) # Outline(pre.glyf["uni4E00"])
    /\ hmtx["A"][1] = 999 /\ Outline(glyf["A"]) = Outline(pre.glyf["A"])
    /\ "orphan" \in Range(glyphOrder)

\* r is the integer nearest to n/d, the even one of the two when n/d is
\* halfway between two integers
IsRounded(r, n, d) ==
    LET distance == IF r * d >= n THEN r * d - n ELSE n - r * d
    IN  2 * distance <= d /\ (2 * distance = d => r % 2 = 0)

\* C18: after apply_glyph_transform without cjk_mode_transform every glyph's
\* advance width is round(old width * scale_x) and its left side bearing is
\* round(old lsb * scale_x), whatever the skew and the translation of the
\* transform are.
C18_MetricsScaled ==
    (pc = "apply_glyph_transform" /\ ~config.cjk_mode_transform) =>
        \A g \in DOMAIN pre.hmtx :
            /\ IsRounded(hmtx[g][1], pre.hmtx[g][1] * config.transform.xx, config.transform.den)
            /\ IsRounded(hmtx[g][2], pre.hmtx[g][2] * config.transform.xx, config.transform.den)

\* scale_x = 0.47 takes a width of 2000 to 940 and a bearing of 100 to 47
C18_Witness ==
    /\ pc = "apply_glyph_transform" /\ ~config.cjk_mode_transform
    /\ config.transform.xx = 47
    /\ pre.hmtx["A"] = <<2000, 100>>
    /\ hmtx["A"] = <<940, 47>>

-----------------------------------------------------------------------------
(* apply_gpos_transform called on its own *)

\* Bounds of the positioning inputs: the number of lookups and the largest
\* base value of the value records and anchors
MaxTransformLookups == 2
MaxGposValue == 50

ValueRecord(v) == [XPlacement |-> v, YPlacement |-> v + 1, XAdvance |-> 2 * v, YAdvance |-> v - 1]

Anchor(v) == [Format |-> 1, XCoordinate |-> v, YCoordinate |-> v + 2]

MarkArray(v) == [MarkRecord |-> <<[Class |-> 0, MarkAnchor |-> Anchor(v)],
                                  [Class |-> 0, MarkAnchor |-> Anchor(v + 3)]>>]

\* one lookup of every kind of positioning lookup, in both formats where the
\* transform tells them apart, with values derived from v; absent values and
\* anchors are None, and a value record has only the fields of its format
GposLookupChoices(v) ==
    {[LookupType |-> 1, SubTable |-> <<[Format |-> 1, Value |-> ValueRecord(v)]>>],
     [LookupType |-> 1,
      SubTable |-> <<[Format |-> 2, Value |-> <<[XAdvance |-> v], [XAdvance |-> v + 1]>>]>>],
     [LookupType |-> 2,
      SubTable |-> <<[Format |-> 1,
                      PairSet |-> <<[PairValueRecord |->
                                        <<[SecondGlyph |-> "V", Value1 |-> [XAdvance |-> v],
                                           Value2 |-> None]>>],
                                    [PairValueRecord |->
                                        <<[SecondGlyph |-> "A", Value1 |-> ValueRecord(v),
                                           Value2 |-> [XPlacement |-> v]]>>]>>]>>],
     [LookupType |-> 2,
      SubTable |-> <<[Format |-> 2,
                      Class1Record |-> <<[Class2Record |->
                                             <<[Value1 |-> [XAdvance |-> 0], Value2 |-> None],
                                               [Value1 |-> [XAdvance |-> v],
                                                Value2 |-> [YPlacement |-> v]]>>]>>]>>],
     [LookupType |-> 3,
      SubTable |-> <<[Format |-> 1,
                      EntryExitRecord |-> <<[EntryAnchor |-> None, ExitAnchor |-> Anchor(v)],
                                            [EntryAnchor |-> Anchor(v),
                                             ExitAnchor |-> Anchor(v + 1)]>>]>>],
     [LookupType |-> 4,
      SubTable |-> <<[Format |-> 1,
                      MarkArray |-> MarkArray(v),
                      BaseArray |-> [BaseRecord |->
                                        <<[BaseAnchor |-> <<Anchor(v), None>>]>>]]>>],
     [LookupType |-> 5,
      SubTable |-> <<[Format |-> 1,
                      MarkArray |-> MarkArray(v),
                      LigatureArray |->
                          [LigatureAttach |->
                              <<[ComponentRecord |->
                                    <<[LigatureAnchor |-> <<Anchor(v)>>],
                                      [LigatureAnchor |-> <<Anchor(v + 1)>>]>>]>>]]>>],
     [LookupType |-> 6,
      SubTable |-> <<[Format |-> 1,
                      Mark1Array |-> MarkArray(v),
                      Mark2Array |-> [Mark2Record |->
                                         <<[Mark2Anchor |-> <<Anchor(v)>>]>>]]>>],
     [LookupType |-> 7,
      SubTable |-> <<[Format |-> 3,
                      PosLookupRecord |-> <<[SequenceIndex |-> 0, LookupListIndex |-> 0]>>]>>],
     [LookupType |-> 8,
      SubTable |-> <<[Format |-> 3,
                      PosLookupRecord |-> <<[SequenceIndex |-> 1, LookupListIndex |-> 0]>>]>>],
     [LookupType |-> 9,
      SubTable |-> <<[Format |-> 1, ExtensionLookupType |-> 1,
                      ExtSubTable |-> [Format |-> 1, Value |-> ValueRecord(v)]]>>]}

InitGposTransform ==
    /\ pc = "start"
    /\ glyphOrder = <<"A", "V">>
    /\ glyf = [g \in {"A", "V"} |-> SimpleGlyph(<<<<20, 0>>, <<420, 700>>>>)]
    /\ hmtx = [g \in {"A", "V"} |-> <<600, 20>>]
    /\ GSUB = None
    /\ \E v \in {-30, 0} \cup {MaxGposValue - 25, MaxGposValue} :
          \E n \in 1..MaxTransformLookups :
              \E lookups \in [1..n -> GposLookupChoices(v)] :
                  GPOS = [LookupList |-> lookups]
    /\ cmap = <<>>
    /\ inter_gpos_merged = FALSE
    /\ inter_font = None
    /\ cjk_width_extend_percent = 0
    /\ \E t \in TransformChoices : config = [NoConfig EXCEPT !.transform = t]
    /\ table_tags = {}
    /\ info = NoInfo
    /\ saved = <<>>
    /\ calls = <<>>
    /\ pre = [glyf |-> glyf, hmtx |-> hmtx, GPOS |-> GPOS]

NextGposTransform == apply_gpos_transform

SpecGposTransform == InitGposTransform /\ [][NextGposTransform]_vars

\* the value records of a subtable of a lookup of type ltype, in the order of
\* the subtable, an absent one as None
ValueRecordsOf(sub, ltype) ==
    CASE ltype = 1 /\ sub.Format = 1 -> <<sub.Value>>
      [] ltype = 1 /\ sub.Format = 2 -> sub.Value
      [] ltype = 2 /\ sub.Format = 1 ->
            concatenated([i \in 1..Len(sub.PairSet) |->
                concatenated([j \in 1..Len(sub.PairSet[i].PairValueRecord) |->
                    <<sub.PairSet[i].PairValueRecord[j].Value1,
                      sub.PairSet[i].PairValueRecord[j].Value2>>])])
      [] ltype = 2 /\ sub.Format = 2 ->
            concatenated([i \in 1..Len(sub.Class1Record) |->
                concatenated([j \in 1..Len(sub.Class1Record[i].Class2Record) |->
                    <<sub.Class1Record[i].Class2Record[j].Value1,
                      sub.Class1Record[i].Class2Record[j].Value2>>])])
      [] OTHER -> <<>>

\* the anchors of the mark records of a mark array
MarkAnchorsOf(array) == [i \in 1..Len(array.MarkRecord) |-> array.MarkRecord[i].MarkAnchor]

\* the anchors of a subtable of a lookup of type ltype, in the order of the
\* subtable, an absent one as None
AnchorsOf(sub, ltype) ==
    CASE ltype = 3 ->
            concatenated([i \in 1..Len(sub.EntryExitRecord) |->
                <<sub.EntryExitRecord[i].EntryAnchor, sub.EntryExitRecord[i].ExitAnchor>>])
      [] ltype = 4 ->
            MarkAnchorsOf(sub.MarkArray)
                \o concatenated([i \in 1..Len(sub.BaseArray.BaseRecord) |->
                                    sub.BaseArray.BaseRecord[i].BaseAnchor])
      [] ltype = 5 ->
            MarkAnchorsOf(sub.MarkArray)
                \o concatenated([i \in 1..Len(sub.LigatureArray.LigatureAttach) |->
                      concatenated(
                          [j \in 1..Len(sub.LigatureArray.LigatureAttach[i].ComponentRecord) |->
                              sub.LigatureArray.LigatureAttach[i].ComponentRecord[j]
                                  .LigatureAnchor])])
      [] ltype = 6 ->
            MarkAnchorsOf(sub.Mark1Array)
                \o concatenated([i \in 1..Len(sub.Mark2Array.Mark2Record) |->
                                    sub.Mark2Array.Mark2Record[i].Mark2Anchor])
      [] OTHER -> <<>>

\* new is the value record or anchor old with every placement and coordinate
\* v replaced by round(v * scale + translate) of its axis and every advance v
\* by round(v * scale), the skew having no part in it
IsTransformed(new, old, t) ==
    IF old = None THEN new = None
    ELSE /\ new # None
         /\ DOMAIN new = DOMAIN old
         /\ \A f \in DOMAIN old :
               CASE f \in {"XPlacement", "XCoordinate"} ->
                        IsRounded(new[f], old[f] * t.xx + t.dx, t.den)
                 [] f \in {"YPlacement", "YCoordinate"} ->
                        IsRounded(new[f], old[f] * t.yy + t.dy, t.den)
                 [] f = "XAdvance" -> IsRounded(new[f], old[f] * t.xx, t.den)
                 [] f = "YAdvance" -> IsRounded(new[f], old[f] * t.yy, t.den)
                 [] OTHER -> new[f] = old[f]

\* C19: after apply_gpos_transform every value record and every anchor of
\* every subtable of a lookup of type 1 to 6 is the one before the call with
\* its placements and coordinates as round(v * scale + translate) and its
\* advances as round(v * scale), transformed once, and a lookup of type 7 or 8
\* is what it was.
C19_PositioningScaled ==
    (pc = "apply_gpos_transform" /\ GPOS # None) =>
        /\ Len(GPOS.LookupList) = Len(pre.GPOS.LookupList)
        /\ \A i \in 1..Len(pre.GPOS.LookupList) :
              LET new == GPOS.LookupList[i]
                  old == pre.GPOS.LookupList[i]
                  ltype == old.LookupType
              IN  /\ new.LookupType = ltype
                  /\ Len(new.SubTable) = Len(old.SubTable)
                  /\ ltype \in {7, 8} => new = old
                  /\ ltype \in 1..6 =>
                        \A k \in 1..Len(old.SubTable) :
                            LET new_records == ValueRecordsOf(new.SubTable[k], ltype)
                                old_records == ValueRecordsOf(old.SubTable[k], ltype)
                                new_anchors == AnchorsOf(new.SubTable[k], ltype)
                                old_anchors == AnchorsOf(old.SubTable[k], ltype)
                            IN  /\ Len(new_records) = Len(old_records)
                                /\ Len(new_anchors) = Len(old_anchors)
                                /\ \A j \in 1..Len(old_records) :
                                      IsTransformed(new_records[j], old_records[j],
                                                    config.transform)
                                /\ \A j \in 1..Len(old_anchors) :
                                      IsTransformed(new_anchors[j], old_anchors[j],
                                                    config.transform)

\* a pair lookup and a mark-to-base lookup were rewritten by a transform that
\* scales, skews and translates
C19_Witness ==
    /\ pc = "apply_gpos_transform"
    /\ config.transform = Transform(50, 20, 0, 50, 3000, -500, 100)
    /\ Len(GPOS.LookupList) = 2
    /\ pre.GPOS.LookupList[1].LookupType = 2 /\ pre.GPOS.LookupList[2].LookupType = 4
    /\ GPOS.LookupList[1] # pre.GPOS.LookupList[1]
    /\ GPOS.LookupList[2] # pre.GPOS.LookupList[2]

-----------------------------------------------------------------------------
(* apply_stylistic_sets (build_font.py 149-186)                             *)
(*                                                                         *)
(* Here the substitution table also has its LookupList; the Feature of a   *)
(* feature record is the record of its LookupListIndex, a lookup is the    *)
(* list of its subtables, and a single-substitution subtable has mapping,  *)
(* the dict of source to substitute as a list of <<src, dst>> in order.    *)

\* lines 174-177: the items of the mappings of a lookup's subtables; a
\* subtable without mapping is passed over
lookup_mappings(lookup) ==
    concatenated([k \in 1..Len(lookup.SubTable) |->
                    IF hasattr(lookup.SubTable[k], "mapping") THEN lookup.SubTable[k].mapping
                    ELSE <<>>])

\* lines 164-177: the <<src, dst>> items in the order the loops over the
\* features with the tag, their lookups and the subtables reach them
tagged_mappings(gsub, tag) ==
    LET ssXX_feature_indices == SortedList(tagged_indices(gsub.FeatureRecord, {tag}))
        feature_mappings(feat_idx) ==
            LET indices == At(gsub.FeatureRecord, feat_idx).Feature.LookupListIndex
            IN  concatenated([k \in 1..Len(indices) |->
                                 lookup_mappings(At(gsub.LookupList, indices[k]))])
    IN  concatenated([k \in 1..Len(ssXX_feature_indices) |->
                         feature_mappings(ssXX_feature_indices[k])])

\* lines 177-184: for each item in turn, glyf[src] = glyf[dst] and
\* hmtx[src] = hmtx[dst] on st = [glyf, hmtx] when both names are in the glyph
\* order; a glyf table without glyphs is false and is left alone (line 180)
RECURSIVE substituted(_, _, _)
substituted(st, items, order) ==
    IF items = <<>> THEN st
    ELSE LET src == Head(items)[1]
             dst == Head(items)[2]
             copies == [glyf |-> IF DOMAIN st.glyf # {}
                                 THEN [st.glyf EXCEPT ![src] = st.glyf[dst]] ELSE st.glyf,
                        hmtx |-> [st.hmtx EXCEPT ![src] = st.hmtx[dst]]]
         IN  substituted(IF src \in Range(order) /\ dst \in Range(order) THEN copies ELSE st,
                         Tail(items), order)

apply_stylistic_sets ==
    /\ pc = "start" \/ next_call = "apply_stylistic_sets"
    /\ pre' = [glyf |-> glyf, hmtx |-> hmtx, GSUB |-> GSUB]
    /\ LET st == IF GSUB = None THEN [glyf |-> glyf, hmtx |-> hmtx]           \* 153-155
                 ELSE substituted([glyf |-> glyf, hmtx |-> hmtx],
                                  tagged_mappings(GSUB, config.apply_stylistic_set),
                                  glyphOrder)
       IN  glyf' = st.glyf /\ hmtx' = st.hmtx
    /\ pc' = "apply_stylistic_sets"
    /\ calls' = Append(calls, "apply_stylistic_sets")
    /\ UNCHANGED <<glyphOrder, GSUB, GPOS, cmap, inter_gpos_merged, inter_font,
                   cjk_width_extend_percent, config, table_tags, info, saved>>

\* Bound of the stylistic-set inputs: the number of items of a mapping
MaxMappings == 2

StylisticGlyphOrder == <<"A", "A.ss01", "A.ss02">>

\* the mappings of 1..n items over the glyphs and the absent glyph "X", each
\* source once and no glyph mapped to itself
MappingChoices(n) ==
    LET names == Range(StylisticGlyphOrder) \cup {"X"}
        items == {p \in names \X names : p[1] # p[2]}
    IN  UNION {{m \in [1..k -> items] : \A i, j \in 1..k : m[i][1] = m[j][1] => i = j}
               : k \in 1..n}

InitStylistic ==
    /\ pc = "start"
    /\ glyphOrder = StylisticGlyphOrder
    /\ glyf = ("A" :> SimpleGlyph(<<<<10, 0>>, <<500, 700>>>>))
                @@ ("A.ss01" :> SimpleGlyph(<<<<11, 0>>, <<510, 700>>>>))
                @@ ("A.ss02" :> SimpleGlyph(<<<<12, 0>>, <<520, 700>>>>))
    /\ hmtx = ("A" :> <<600, 10>>) @@ ("A.ss01" :> <<610, 11>>) @@ ("A.ss02" :> <<620, 12>>)
    /\ \E m1 \in MappingChoices(MaxMappings), m2 \in MappingChoices(1),
          tag \in {"ss01", "ss02"}, used \in {<<0>>, <<1>>, <<0, 1>>, <<1, 0>>} :
              GSUB = [FeatureRecord |-> <<[FeatureTag |-> tag,
                                           Feature |-> [LookupListIndex |-> used]]>>,
                      ScriptRecord |-> <<[ScriptTag |-> "DFLT",
                                          DefaultLangSys |-> [FeatureIndex |-> <<0>>],
                                          LangSysRecord |-> <<>>]>>,
                      LookupList |-> <<[LookupType |-> 1, SubTable |-> <<[mapping |-> m1]>>],
                                       [LookupType |-> 4,
                                        SubTable |-> <<[ligatures |-> <<>>], [mapping |-> m2]>>]>>]
    /\ GPOS = None
    /\ cmap = <<>>
    /\ inter_gpos_merged = FALSE
    /\ inter_font = None
    /\ cjk_width_extend_percent = 0
    /\ config = [NoConfig EXCEPT !.apply_stylistic_set = "ss01"]
    /\ table_tags = {}
    /\ info = NoInfo
    /\ saved = <<>>
    /\ calls = <<>>
    /\ pre = [glyf |-> glyf, hmtx |-> hmtx, GSUB |-> GSUB]

NextStylistic == apply_stylistic_sets

SpecStylistic == InitStylistic /\ [][NextStylistic]_vars

\* the <<src, dst>> items of the single-substitution subtables of the lookups
\* of the features with the tag
TaggedItems(gsub, tag) ==
    UNION {UNION {UNION {Range(gsub.LookupList[l + 1].SubTable[k].mapping) :
                             k \in {x \in 1..Len(gsub.LookupList[l + 1].SubTable) :
                                        "mapping" \in DOMAIN gsub.LookupList[l + 1].SubTable[x]}} :
                      l \in Range(gsub.FeatureRecord[f].Feature.LookupListIndex)} :
               f \in {x \in 1..Len(gsub.FeatureRecord) : gsub.FeatureRecord[x].FeatureTag = tag}}

\* C15: after apply_stylistic_sets, for every item src -> dst of a lookup of a
\* feature with the tag whose two glyphs are in the glyph order, the outline
\* and the horizontal metric of src are those dst had before the call, also
\* when a glyph is the source of one item and the substitute of another.
C15_DefaultBecomesAlternate ==
    (pc = "apply_stylistic_sets" /\ GSUB # None) =>
        \A item \in TaggedItems(GSUB, config.apply_stylistic_set) :
            (item[1] \in Range(glyphOrder) /\ item[2] \in Range(glyphOrder)) =>
                /\ Outline(glyf[item[1]]) = Outline(pre.glyf[item[2]])
                /\ hmtx[item[1]] = pre.hmtx[item[2]]

-----------------------------------------------------------------------------
(* merge_inter_font (build_font.py 379-524) *)

\* line 403: new_glyph_name = f"{merge_font_prefix}{inter_glyph_name}"
prefixed(inter_glyph_name) == merge_font_prefix \o inter_glyph_name

\* lines 401-404: inter_name_map, original donor glyph name -> prefixed name
name_map_of(inter_glyph_order) ==
    [g \in Range(inter_glyph_order) |-> prefixed(g)]

\* lines 402-406: the prefixed names are appended to the glyph order in donor order
merged_glyph_order(target_glyph_order, inter_glyph_order) ==
    target_glyph_order \o [i \in 1..Len(inter_glyph_order) |-> prefixed(inter_glyph_order[i])]

\* dict.update: the entries of d2 added to d1, overriding those of d1
dict_update(d1, d2) ==
    [k \in (DOMAIN d1) \cup (DOMAIN d2) |-> IF k \in DOMAIN d2 THEN d2[k] ELSE d1[k]]

\* lines 412-422: the metric of every donor glyph is stored under its prefixed name
merged_hmtx(target_hmtx, inter_hmtx, inter_name_map) ==
    LET copied == {g \in DOMAIN inter_name_map : g \in DOMAIN inter_hmtx}
        src(n) == CHOOSE g \in copied : inter_name_map[g] = n
    IN  dict_update(target_hmtx,
                    [n \in {inter_name_map[g] : g \in copied} |-> inter_hmtx[src(n)]])

\* lines 490-495: the tables of a cmap folded into one dict, later tables last
RECURSIVE merged_cmap(_)
merged_cmap(tables) ==
    IF tables = <<>> THEN <<>>
    ELSE dict_update(merged_cmap(SubSeq(tables, 1, Len(tables) - 1)),
                     tables[Len(tables)].cmap)

\* (variant of is_control_character that takes 0xA0 for a control character)
is_control_character_through_A0(cp) == cp < 32 \/ (127 <= cp /\ cp <= 160)

\* line 497: (cp < 0x20) or (0x7F <= cp < 0xA0)
is_control_character(cp) == cp < 32 \/ (127 <= cp /\ cp < 160)

\* (variant of is_width_protected that protects only widths above 1000)
is_width_protected_above_1000(cp, target_cmap, target_hmtx) ==
    /\ cp \in DOMAIN target_cmap
    /\ target_cmap[cp] \in DOMAIN target_hmtx
    /\ target_hmtx[target_cmap[cp]][1] > 1000

\* lines 501-506: the code point is bound to a glyph with metrics whose width is >= 1000
is_width_protected(cp, target_cmap, target_hmtx) ==
    /\ cp \in DOMAIN target_cmap
    /\ target_cmap[cp] \in DOMAIN target_hmtx
    /\ target_hmtx[target_cmap[cp]][1] >= 1000

\* lines 496-508: the donor code points that reach the table loop
updated_codepoints(inter_cmap, target_cmap, target_hmtx) ==
    {cp \in DOMAIN inter_cmap :
        /\ ~is_control_character(cp)
        /\ ~is_width_protected(cp, target_cmap, target_hmtx)}

\* (variant of table_is_written that writes every Unicode table whatever its format)
table_is_written_any_format(table, cp) == table.isUnicode

\* lines 511-521: the table gets table.cmap[cp] = new_glyph_name
table_is_written(table, cp) ==
    /\ table.isUnicode
    /\ \/ table.format = 4 /\ cp <= 65535
       \/ table.format = 12

\* lines 496-522: the rewritten tables of the primary's cmap
updated_cmap_tables(tables, inter_cmap, inter_name_map, target_hmtx) ==
    LET target_cmap == merged_cmap(tables)
        updated == updated_codepoints(inter_cmap, target_cmap, target_hmtx)
    IN  [t \in 1..Len(tables) |->
            [tables[t] EXCEPT !.cmap =
                dict_update(@, [cp \in {c \in updated : table_is_written(tables[t], c)} |->
                                   inter_name_map[inter_cmap[cp]]])]]

-----------------------------------------------------------------------------
(* merge_inter_font_gpos_table (build_font.py 245-376)                      *)
(*                                                                         *)
(* A positioning table is a record of LookupList (a list of lookups),      *)
(* FeatureRecord, ScriptRecord, the three stored counts, and heap: the     *)
(* table objects below the lookups (subtables, coverages, class            *)
(* definitions), by object identity.  A lookup's SubTable is a list of     *)
(* identities.  An object is a record of its attributes, so that hasattr   *)
(* is membership in the record's DOMAIN.  A Python dict with an order that *)
(* matters (classDefs) is a list of <<key, value>> pairs.                  *)

\* the identity of a table object (Python's id(obj))
Ref(n) == [ref |-> n]

\* inter_name_map.get(g, g)
name_map_get(inter_name_map, g) ==
    IF g \in DOMAIN inter_name_map THEN inter_name_map[g] ELSE g

\* d[k] = v on an insertion-ordered dict
dict_set(d, k, v) ==
    IF \E i \in 1..Len(d) : d[i][1] = k
    THEN [i \in 1..Len(d) |-> IF d[i][1] = k THEN <<k, v>> ELSE d[i]]
    ELSE Append(d, <<k, v>>)

\* the dict a comprehension builds from a list of items, inserted left to right
RECURSIVE dict_from_items(_)
dict_from_items(items) ==
    IF items = <<>> THEN <<>>
    ELSE LET last == items[Len(items)]
         IN  dict_set(dict_from_items(SubSeq(items, 1, Len(items) - 1)), last[1], last[2])

\* (variant of remap_glyphs that leaves the first glyph of a list as it is)
remap_glyphs_but_first(glyphs, inter_name_map) ==
    [i \in 1..Len(glyphs) |->
        IF i = 1 THEN glyphs[i] ELSE name_map_get(inter_name_map, glyphs[i])]

\* line 279: [inter_name_map.get(g, g) for g in obj.glyphs]
remap_glyphs(glyphs, inter_name_map) ==
    [i \in 1..Len(glyphs) |-> name_map_get(inter_name_map, glyphs[i])]

\* lines 283, 287, 290: {inter_name_map.get(g, g): cls for g, cls in classDefs.items()}
remap_classDefs(classDefs, inter_name_map) ==
    dict_from_items([i \in 1..Len(classDefs) |->
                        <<name_map_get(inter_name_map, classDefs[i][1]), classDefs[i][2]>>])

\* lines 292-299: SecondGlyph of every PairValueRecord of every PairSet
remap_PairSet(PairSet, inter_name_map) ==
    [i \in 1..Len(PairSet) |->
        [PairSet[i] EXCEPT !.PairValueRecord =
            [j \in 1..Len(@) |->
                [@[j] EXCEPT !.SecondGlyph = name_map_get(inter_name_map, @)]]]]

\* lines 285-290: obj.ClassDefN exists, is not None and has classDefs: its dict is
\* rewritten in place from the parent, without a look at visited
remap_ClassDefN(heap, obj, attr, inter_name_map) ==
    IF hasattr(obj, attr) /\ obj[attr] # None /\ hasattr(heap[obj[attr]], "classDefs")
    THEN [heap EXCEPT ![obj[attr]].classDefs = remap_classDefs(@, inter_name_map)]
    ELSE heap

\* lines 305-332: the attributes of the modelled objects that hold an object,
\* in the order of dir(obj)
ObjectAttrs == <<"BaseCoverage", "ClassDef1", "ClassDef2", "Coverage", "ExtSubTable", "MarkCoverage">>

\* lines 305-332: the objects the attribute scan recurses into.  Lists of str
\* (Input of a PosRule) and the records below PairSet and PosRuleSet are scanned
\* too, but remap of a str or of a record without glyph attributes changes
\* nothing and its result is dropped (line 317); the tuple branch (321-329)
\* tests isinstance(val, str) on the tuple and never acts.
scanned_objects(obj) ==
    LET held == SortedList({i \in 1..Len(ObjectAttrs) :
                    hasattr(obj, ObjectAttrs[i]) /\ obj[ObjectAttrs[i]] # None})
    IN  [k \in 1..Len(held) |-> obj[ObjectAttrs[held[k]]]]

\* lines 268-333: remap(obj) on the state st = [heap, visited]
RECURSIVE remap(_, _, _)
RECURSIVE remap_each(_, _, _)
remap(st, oid, inter_name_map) ==
    IF oid = None \/ oid \in st.visited THEN st                         \* 269-274
    ELSE LET obj == st.heap[oid]
             h1 == IF hasattr(obj, "glyphs")                            \* 277-279
                   THEN [st.heap EXCEPT ![oid].glyphs = remap_glyphs(@, inter_name_map)]
                   ELSE st.heap
             h2 == IF hasattr(obj, "classDefs")                         \* 281-283
                   THEN [h1 EXCEPT ![oid].classDefs = remap_classDefs(@, inter_name_map)]
                   ELSE h1
             h3 == remap_ClassDefN(h2, obj, "ClassDef1", inter_name_map)
             h4 == remap_ClassDefN(h3, obj, "ClassDef2", inter_name_map)
             h5 == IF hasattr(obj, "PairSet")                           \* 292-299
                   THEN [h4 EXCEPT ![oid].PairSet = remap_PairSet(@, inter_name_map)]
                   ELSE h4
             st5 == [heap |-> h5, visited |-> st.visited \cup {oid}]    \* 275
             st6 == IF hasattr(obj, "ExtSubTable")                      \* 301-303
                    THEN remap(st5, obj.ExtSubTable, inter_name_map)
                    ELSE st5
         IN  remap_each(st6, scanned_objects(obj), inter_name_map)      \* 305-332

\* lines 315-317: for item in val: remap(item)
remap_each(st, oids, inter_name_map) ==
    IF oids = <<>> THEN st
    ELSE remap_each(remap(st, Head(oids), inter_name_map), Tail(oids), inter_name_map)

\* the subtables of all lookups, in list order
RECURSIVE all_subtables(_)
all_subtables(lookups) ==
    IF lookups = <<>> THEN <<>>
    ELSE Head(lookups).SubTable \o all_subtables(Tail(lookups))

\* lines 337-338, 348-349: remap(new_gpos.table) on the deep copy of the donor
\* table.  The table, its three lists and the lookups hold no glyph name and
\* are each reached once; the scan descends LookupList.Lookup[*].SubTable[*].
remapped_table(inter_gpos, inter_name_map) ==
    [inter_gpos EXCEPT !.heap =
        remap_each([heap |-> inter_gpos.heap, visited |-> {}],
                   all_subtables(inter_gpos.LookupList), inter_name_map).heap]

\* (variant of prepend_lookups that appends the donor lookups in order)
append_lookups(target_lookups, src_lookups) == target_lookups \o src_lookups

\* lines 352-354: tgt_gpos.LookupList.Lookup.insert(0, new_lookup) for each
\* donor lookup in order, which leaves the donor lookups reversed in front
RECURSIVE prepend_lookups(_, _)
prepend_lookups(target_lookups, src_lookups) ==
    IF src_lookups = <<>> THEN target_lookups
    ELSE prepend_lookups(<<Head(src_lookups)>> \o target_lookups, Tail(src_lookups))

\* [offset + i for i in indices]
offset_indices(indices, offset) == [k \in 1..Len(indices) |-> offset + indices[k]]

\* lines 358-361: the donor feature records with their lookup indices offset
offset_features(featureRecord, lookup_offset) ==
    [f \in 1..Len(featureRecord) |->
        [featureRecord[f] EXCEPT !.LookupListIndex = offset_indices(@, lookup_offset)]]

\* lines 365-372: the donor script records with their feature indices offset
offset_scripts(scriptRecord, feature_offset) ==
    [s \in 1..Len(scriptRecord) |->
        [scriptRecord[s] EXCEPT
            !.DefaultLangSys = IF @ = None THEN None
                               ELSE [@ EXCEPT !.FeatureIndex = offset_indices(@, feature_offset)],
            !.LangSysRecord = [l \in 1..Len(@) |->
                [@[l] EXCEPT !.FeatureIndex = offset_indices(@, feature_offset)]]]]

\* (variant of appended_table that reads both offsets after the donor's lookups
\* and features went into the lists)
appended_table_late_offsets(tgt_gpos, src_gpos) ==
    LET lookups == prepend_lookups(tgt_gpos.LookupList, src_gpos.LookupList)
        lookup_offset == Len(lookups)
        feature_offset == Len(tgt_gpos.FeatureRecord) + Len(src_gpos.FeatureRecord)
        features == tgt_gpos.FeatureRecord
                        \o offset_features(src_gpos.FeatureRecord, lookup_offset)
        scripts == tgt_gpos.ScriptRecord
                        \o offset_scripts(src_gpos.ScriptRecord, feature_offset)
    IN  [LookupList |-> lookups,
         LookupCount |-> Len(lookups),
         FeatureRecord |-> features,
         FeatureCount |-> Len(features),
         ScriptRecord |-> scripts,
         ScriptCount |-> Len(scripts),
         heap |-> dict_update(tgt_gpos.heap, src_gpos.heap)]

\* lines 344-376: the donor table merged into the existing table of the primary
appended_table(tgt_gpos, src_gpos) ==
    LET lookup_offset == tgt_gpos.LookupCount                           \* 345
        feature_offset == tgt_gpos.FeatureCount                         \* 346
        lookups == prepend_lookups(tgt_gpos.LookupList, src_gpos.LookupList)
        features == tgt_gpos.FeatureRecord
                        \o offset_features(src_gpos.FeatureRecord, lookup_offset)
        scripts == tgt_gpos.ScriptRecord
                        \o offset_scripts(src_gpos.ScriptRecord, feature_offset)
    IN  [LookupList |-> lookups,
         LookupCount |-> Len(lookups),                                  \* 356
         FeatureRecord |-> features,
         FeatureCount |-> Len(features),                                \* 363
         ScriptRecord |-> scripts,
         ScriptCount |-> Len(scripts),                                  \* 374
         heap |-> dict_update(tgt_gpos.heap, src_gpos.heap)]

\* (variant of merge_inter_font_gpos_table that does not look at the flag)
merge_inter_font_gpos_table_unguarded(target_gpos, merged_flag, inter_gpos, inter_name_map) ==
    IF inter_gpos = None THEN [GPOS |-> target_gpos, merged |-> TRUE]
    ELSE IF target_gpos = None
         THEN [GPOS |-> remapped_table(inter_gpos, inter_name_map), merged |-> TRUE]
    ELSE [GPOS |-> appended_table(target_gpos, remapped_table(inter_gpos, inter_name_map)),
          merged |-> TRUE]

\* lines 256-376: the primary's positioning table and flag after the call
merge_inter_font_gpos_table(target_gpos, merged_flag, inter_gpos, inter_name_map) ==
    IF merged_flag THEN [GPOS |-> target_gpos, merged |-> merged_flag]  \* 256-257
    ELSE IF inter_gpos = None THEN [GPOS |-> target_gpos, merged |-> TRUE]   \* 258-261
    ELSE IF target_gpos = None                                          \* 336-340
         THEN [GPOS |-> remapped_table(inter_gpos, inter_name_map), merged |-> TRUE]
    ELSE [GPOS |-> appended_table(target_gpos, remapped_table(inter_gpos, inter_name_map)),
          merged |-> TRUE]                                              \* 344-375

\* lines 412-419: the outline of every donor glyph of names, drawn into a
\* new glyph and stored under its prefixed name
merged_glyf(target_glyf, inter_glyf, names) ==
    LET src(n) == CHOOSE g \in names : prefixed(g) = n
    IN  dict_update(target_glyf,
                    [n \in {prefixed(g) : g \in names} |->
                        drawn_glyph(inter_glyf[src(n)], 0, translate(0, 0))])

\* lines 428-441: the code points and donor glyph names of a punctuation
\* tier, in the order of the dict
inter_punc_map(replace_punc) ==
    IF replace_punc >= 2
    THEN <<<<65292, "comma">>, <<65306, "colon">>, <<65307, "semicolon">>,
           <<65281, "exclam">>, <<65311, "question">>>>
    ELSE IF replace_punc >= 1 THEN <<<<65281, "exclam">>, <<65311, "question">>>>
    ELSE <<>>

\* font.getBestCmap(): the mapping of the first encoding table found, going
\* through the (platformID, platEncID) pairs in fontTools' order of preference
getBestCmap(cmap_tables) ==
    LET cmapPreferences == <<<<3, 10>>, <<0, 6>>, <<0, 4>>, <<3, 1>>, <<0, 3>>, <<0, 2>>,
                             <<0, 1>>, <<0, 0>>>>
        found(p) == {t \in 1..Len(cmap_tables) :
                        <<cmap_tables[t].platformID, cmap_tables[t].platEncID>> = cmapPreferences[p]}
        usable == {p \in 1..Len(cmapPreferences) : found(p) # {}}
    IN  IF usable = {} THEN None ELSE cmap_tables[SetMin(found(SetMin(usable)))].cmap

\* (variant of centering_shift that leaves out the donor's left side-bearing)
centering_shift_without_lsb(cjk_width, inter_width, inter_lsb) ==
    (cjk_width - inter_width) \div 2

\* line 459: shift = (cjk_width - inter_width) // 2 - inter_lsb
centering_shift(cjk_width, inter_width, inter_lsb) ==
    (cjk_width - inter_width) \div 2 - inter_lsb

\* lines 466-482: Transform().translate(center_shift, vertical_shift), the
\* difference of the centres (xMin + xMax) / 2, (yMin + yMax) / 2 of the two
\* bounding boxes
center_alignment(original, inter) ==
    Transform(2, 0, 0, 2,
              (original.xMin + original.xMax) - (inter.xMin + inter.xMax),
              (original.yMin + original.yMax) - (inter.yMin + inter.yMax), 2)

\* lines 451-486: the loop over inter_punc_map on st = [glyf, raised]; a
\* raise ends the loop and leaves the glyphs replaced so far
RECURSIVE replaced_punctuation(_, _, _, _, _, _)
replaced_punctuation(st, entries, best_cmap, target_hmtx, inter, inter_name_map) ==
    IF entries = <<>> THEN st
    ELSE LET cp == Head(entries)[1]
             inter_glyph_name == Head(entries)[2]
             target_glyph_name == best_cmap[cp]
             shift == centering_shift(target_hmtx[target_glyph_name][1],
                                      inter.hmtx[inter_glyph_name][1],
                                      inter.hmtx[inter_glyph_name][2])
             aligned == cp \in {65292, 65306, 65307}                               \* 463
             no_bbox == ~hasattr(st.glyf[target_glyph_name], "xMin")                \* 444-449
                            \/ ~hasattr(inter.glyf[inter_glyph_name], "xMin")
             transform == IF aligned
                          THEN center_alignment(st.glyf[target_glyph_name],
                                                inter.glyf[inter_glyph_name])
                          ELSE translate(shift, 0)                                 \* 484
         IN  IF inter_glyph_name \notin DOMAIN inter_name_map                      \* 452-453
             THEN [st EXCEPT !.raised = "ValueError"]
             ELSE IF cp \notin DOMAIN best_cmap                                    \* 454
             THEN replaced_punctuation(st, Tail(entries), best_cmap, target_hmtx,
                                       inter, inter_name_map)
             ELSE IF aligned /\ no_bbox THEN [st EXCEPT !.raised = "ValueError"]
             ELSE replaced_punctuation(
                      [st EXCEPT !.glyf[target_glyph_name] =                       \* 485-486
                          drawn_glyph(inter.glyf[inter_glyph_name], 0, transform)],
                      Tail(entries), best_cmap, target_hmtx, inter, inter_name_map)

\* the positions of the composite glyphs in the donor's glyph order
composite_positions(inter_glyph_order, inter_glyf) ==
    {i \in 1..Len(inter_glyph_order) : isComposite(inter_glyf[inter_glyph_order[i]])}

\* a copy loop that stores the glyph before it tests it
copied_glyphs_then_tested(inter_glyph_order, inter_glyf) ==
    LET composites == composite_positions(inter_glyph_order, inter_glyf)
    IN  IF composites = {} THEN Range(inter_glyph_order)
        ELSE {inter_glyph_order[i] : i \in 1..SetMin(composites)}

\* lines 412-419: the donor glyphs the copy loop stores in the primary font.
\* It goes through the donor's glyph order, raises NotImplementedError at
\* the first composite (414-415) before it draws it, and so copies the
\* glyphs before that one.
copied_glyphs(inter_glyph_order, inter_glyf) ==
    LET composites == composite_positions(inter_glyph_order, inter_glyf)
    IN  IF composites = {} THEN Range(inter_glyph_order)
        ELSE {inter_glyph_order[i] : i \in 1..(SetMin(composites) - 1)}

\* lines 385-522: the whole merge on the font record: name map and glyph
\* order, positioning table, glyph outlines and metrics, punctuation,
\* character map.  raised names the exception that ended the call, with the
\* font as the statements before the raise left it.
merged_font(font, inter, replace_punc) ==
    LET inter_name_map == name_map_of(inter.glyphOrder)
        gpos_result == merge_inter_font_gpos_table(font.GPOS, font.inter_gpos_merged,
                                                   inter.GPOS, inter_name_map)
        composites == composite_positions(inter.glyphOrder, inter.glyf)
        copied == copied_glyphs(inter.glyphOrder, inter.glyf)                      \* 412-419
        target_hmtx == merged_hmtx(font.hmtx, inter.hmtx,
                                   [g \in copied |-> inter_name_map[g]])
        named == [glyphOrder |-> merged_glyph_order(font.glyphOrder, inter.glyphOrder),
                  glyf |-> merged_glyf(font.glyf, inter.glyf, copied),
                  hmtx |-> target_hmtx,
                  GPOS |-> gpos_result.GPOS,
                  inter_gpos_merged |-> gpos_result.merged,
                  cmap |-> font.cmap,
                  raised |-> ""]
        entries == inter_punc_map(replace_punc)
        punc == IF entries = <<>> THEN [glyf |-> named.glyf, raised |-> ""]
                ELSE replaced_punctuation([glyf |-> named.glyf, raised |-> ""], entries,
                                          getBestCmap(font.cmap), target_hmtx,
                                          inter, inter_name_map)
    IN  IF "fvar" \in inter.table_tags                                             \* 389-390
        THEN [font EXCEPT !.raised = "ValueError"]
        ELSE IF composites # {} THEN [named EXCEPT !.raised = "NotImplementedError"]
        ELSE IF punc.raised # "" THEN [named EXCEPT !.glyf = punc.glyf, !.raised = punc.raised]
        ELSE [named EXCEPT
                 !.glyf = punc.glyf,
                 !.cmap = updated_cmap_tables(font.cmap, merged_cmap(inter.cmap),
                                              inter_name_map, target_hmtx)]

\* the font object as the record merged_font works on
font_record ==
    [glyphOrder |-> glyphOrder, glyf |-> glyf, hmtx |-> hmtx, GPOS |-> GPOS,
     inter_gpos_merged |-> inter_gpos_merged, cmap |-> cmap, raised |-> ""]

\* merge_inter_font(target_font, inter_font_path, replace_punc) on the font object
merge_inter_font_call ==
    \E merged \in {merged_font(font_record, inter_font, config.replace_punc)} :
        /\ pre' = [glyphOrder |-> glyphOrder, glyf |-> glyf, hmtx |-> hmtx,
                   GPOS |-> GPOS, cmap |-> cmap]
        /\ glyphOrder' = merged.glyphOrder
        /\ glyf' = merged.glyf
        /\ hmtx' = merged.hmtx
        /\ GPOS' = merged.GPOS
        /\ inter_gpos_merged' = merged.inter_gpos_merged
        /\ cmap' = merged.cmap
        /\ pc' = IF merged.raised # "" THEN merged.raised ELSE "merge_inter_font"
        /\ calls' = IF merged.raised # "" THEN calls ELSE Append(calls, "merge_inter_font")
        /\ UNCHANGED <<GSUB, inter_font, cjk_width_extend_percent, config, table_tags, info, saved>>

\* the merge called on a font object, or by build_font (line 130)
merge_inter_font ==
    /\ pc = "start" \/ next_call = "merge_inter_font"
    /\ merge_inter_font_call

\* Bound on the number of merges invoked on one font object
MaxMerges == 2

\* the merge invoked again on the font object a merge returned from
merge_inter_font_again ==
    /\ running = ""
    /\ pc = "merge_inter_font"
    /\ Len(calls) < MaxMerges
    /\ merge_inter_font_call

-----------------------------------------------------------------------------
(* Inputs of the merge: positioning tables *)
MaxDonorLookups == 2
MaxTargetLookups == 2

SubTableKinds == {"SinglePos", "PairPosFormat1", "PairPosFormat2", "ContextPosFormat1", "ExtensionPos"}

LookupTypeOf(kind) ==
    CASE kind = "SinglePos" -> 1
      [] kind \in {"PairPosFormat1", "PairPosFormat2"} -> 2
      [] kind = "ContextPosFormat1" -> 7
      [] kind = "ExtensionPos" -> 9

DonorGlyphOrderChoices == {<<"A", "V">>, <<"A", "inter_A">>}

\* the objects of the i-th donor lookup: its one subtable Ref(10i) of the given
\* kind over all donor glyphs, with coverage cov and class definitions cd1, cd2
LookupObjects(i, kind, names, cov, cd1, cd2) ==
    LET coverage == [glyphs |-> names]
        classDef == [classDefs |-> [k \in 1..Len(names) |-> <<names[k], k>>]]
        pairSet == [k \in 1..Len(names) |->
                       [PairValueRecord |-> [j \in 1..Len(names) |-> [SecondGlyph |-> names[j]]]]]
        ruleSet == [k \in 1..Len(names) |-> [PosRule |-> <<[Input |-> <<names[Len(names)]>>]>>]]
        sub == Ref(10 * i)
    IN  CASE kind = "SinglePos" ->
                (sub :> [Format |-> 1, Coverage |-> cov]) @@ (cov :> coverage)
          [] kind = "PairPosFormat1" ->
                (sub :> [Format |-> 1, Coverage |-> cov, PairSet |-> pairSet]) @@ (cov :> coverage)
          [] kind = "PairPosFormat2" ->
                (sub :> [Format |-> 2, Coverage |-> cov, ClassDef1 |-> cd1, ClassDef2 |-> cd2])
                    @@ (cov :> coverage) @@ (cd1 :> classDef) @@ (cd2 :> classDef)
          [] kind = "ContextPosFormat1" ->
                (sub :> [Format |-> 1, Coverage |-> cov, PosRuleSet |-> ruleSet]) @@ (cov :> coverage)
          [] kind = "ExtensionPos" ->
                (sub :> [Format |-> 1, ExtensionLookupType |-> 1, ExtSubTable |-> Ref(10 * i + 4)])
                    @@ (Ref(10 * i + 4) :> [Format |-> 1, Coverage |-> cov]) @@ (cov :> coverage)

\* the heap of a donor table with the given subtable kinds; with share, the
\* lookups after the first use the coverage and class-definition objects of
\* the first lookup instead of their own (shared substructure)
RECURSIVE DonorHeap(_, _, _, _)
DonorHeap(kinds, names, share, i) ==
    IF i > Len(kinds) THEN <<>>
    ELSE LET own(k) == Ref(10 * i + k)
             first(k) == Ref(10 + k)
             shared == share /\ i > 1
             sharedCd == shared /\ kinds[1] = "PairPosFormat2"
         IN  dict_update(DonorHeap(kinds, names, share, i + 1),
                 LookupObjects(i, kinds[i], names,
                               IF shared THEN first(1) ELSE own(1),
                               IF sharedCd THEN first(2) ELSE own(2),
                               IF sharedCd THEN first(3) ELSE own(3)))

\* a script list with one script whose default language system uses feature 0
OneScript(tag) ==
    <<[ScriptTag |-> tag,
       DefaultLangSys |-> [FeatureIndex |-> <<0>>],
       LangSysRecord |-> <<>>]>>

\* donor positioning tables: 1..MaxDonorLookups lookups of one subtable each
\* and one feature that uses a non-empty set of them
DonorGposChoices(names) ==
    UNION {
        {[LookupList |-> [i \in 1..n |-> [id |-> <<"inter", i - 1>>,
                                          LookupType |-> LookupTypeOf(kinds[i]),
                                          SubTable |-> <<Ref(10 * i)>>]],
          LookupCount |-> n,
          FeatureRecord |-> <<[FeatureTag |-> "kern", LookupListIndex |-> SortedList(used)]>>,
          FeatureCount |-> 1,
          ScriptRecord |-> OneScript("latn"),
          ScriptCount |-> 1,
          heap |-> DonorHeap(kinds, names, share, 1)] :
            kinds \in [1..n -> SubTableKinds],
            used \in (SUBSET (0..(n - 1))) \ {{}},
            share \in {s \in BOOLEAN : s => n > 1}}
        : n \in 1..MaxDonorLookups}

\* primary positioning tables: 1..MaxTargetLookups lookups (their subtables
\* are not touched by the merge and are left out), one feature that uses a
\* non-empty set of them, and one script with one of the tags
TargetGposChoices(tags) ==
    UNION {
        {[LookupList |-> [i \in 1..n |-> [id |-> <<"target", i - 1>>,
                                          LookupType |-> 1,
                                          SubTable |-> <<>>]],
          LookupCount |-> n,
          FeatureRecord |-> <<[FeatureTag |-> "palt", LookupListIndex |-> SortedList(used)]>>,
          FeatureCount |-> 1,
          ScriptRecord |-> OneScript(tag),
          ScriptCount |-> 1,
          heap |-> <<>>] :
            used \in (SUBSET (0..(n - 1))) \ {{}}, tag \in tags}
        : n \in 1..MaxTargetLookups}

InitGpos ==
    /\ pc = "start"
    /\ glyphOrder = <<"uni4E00">>
    /\ glyf = [g \in {"uni4E00"} |-> SimpleGlyph(<<<<50, -100>>, <<950, 800>>>>)]
    /\ hmtx = [g \in {"uni4E00"} |-> <<1000, 50>>]
    /\ GSUB = None
    /\ GPOS \in {None} \cup TargetGposChoices({"DFLT", "latn"})
    /\ cmap = <<[format |-> 4, isUnicode |-> TRUE, cmap |-> (19968 :> "uni4E00")]>>
    /\ inter_gpos_merged = FALSE
    /\ \E names \in DonorGlyphOrderChoices :
          \E gpos \in {None} \cup DonorGposChoices(names) :
              inter_font = [glyphOrder |-> names,
                            table_tags |-> {},
                            glyf |-> [g \in Range(names) |->
                                         SimpleGlyph(<<<<20, 0>>, <<580, 700>>>>)],
                            hmtx |-> [g \in Range(names) |-> <<600, 20>>],
                            GPOS |-> gpos,
                            cmap |-> <<[format |-> 4, isUnicode |-> TRUE,
                                        cmap |-> (65 :> "A")]>>]
    /\ cjk_width_extend_percent = 0
    /\ config = NoConfig
    /\ table_tags = {}
    /\ info = NoInfo
    /\ saved = <<>>
    /\ calls = <<>>
    /\ pre = [glyphOrder |-> glyphOrder, glyf |-> glyf, hmtx |-> hmtx, GPOS |-> GPOS,
              cmap |-> cmap]

NextGpos == merge_inter_font

SpecGpos == InitGpos /\ [][NextGpos]_vars

\* a merge that found a positioning table on both sides and appended
GposAppended ==
    pc = "merge_inter_font" /\ pre.GPOS # None /\ inter_font.GPOS # None

\* a merge that brought the donor's positioning table into the primary
GposMerged == pc = "merge_inter_font" /\ inter_font.GPOS # None

\* the identity of the lookup a lookup index designates in a table
LookupIdAt(gpos, idx) ==
    IF idx \in Indices(gpos.LookupList) THEN At(gpos.LookupList, idx).id
    ELSE <<"none", idx>>

\* C1: after a merge into a primary that has a positioning table, every
\* lookup index of every pre-existing primary feature designates the primary
\* lookup it designated before, and every lookup index of every appended donor
\* feature designates the donor lookup it designated in the donor table.
C1_ReferencesPreserved ==
    GposAppended =>
        /\ \A f \in 1..Len(pre.GPOS.FeatureRecord) :
              /\ Len(GPOS.FeatureRecord[f].LookupListIndex)
                     = Len(pre.GPOS.FeatureRecord[f].LookupListIndex)
              /\ \A k \in 1..Len(pre.GPOS.FeatureRecord[f].LookupListIndex) :
                    LookupIdAt(GPOS, GPOS.FeatureRecord[f].LookupListIndex[k])
                        = LookupIdAt(pre.GPOS, pre.GPOS.FeatureRecord[f].LookupListIndex[k])
        /\ \A f \in 1..Len(inter_font.GPOS.FeatureRecord) :
              LET merged == GPOS.FeatureRecord[Len(pre.GPOS.FeatureRecord) + f]
                  donor == inter_font.GPOS.FeatureRecord[f]
              IN  /\ Len(merged.LookupListIndex) = Len(donor.LookupListIndex)
                  /\ \A k \in 1..Len(donor.LookupListIndex) :
                        LookupIdAt(GPOS, merged.LookupListIndex[k])
                            = LookupIdAt(inter_font.GPOS, donor.LookupListIndex[k])

\* the glyph names an object holds in its coverage list, class-definition map
\* and pair second-glyph fields
IndexedNames(obj) ==
    (IF hasattr(obj, "glyphs") THEN Range(obj.glyphs) ELSE {})
    \cup (IF hasattr(obj, "classDefs")
          THEN {obj.classDefs[i][1] : i \in 1..Len(obj.classDefs)} ELSE {})
    \cup (IF hasattr(obj, "PairSet")
          THEN UNION {{obj.PairSet[i].PairValueRecord[j].SecondGlyph :
                          j \in 1..Len(obj.PairSet[i].PairValueRecord)} :
                      i \in 1..Len(obj.PairSet)}
          ELSE {})

\* the glyph names an object holds in the glyph sequences of its contextual rules
RuleNames(obj) ==
    IF hasattr(obj, "PosRuleSet")
    THEN UNION {UNION {Range(obj.PosRuleSet[i].PosRule[j].Input) :
                          j \in 1..Len(obj.PosRuleSet[i].PosRule)} :
                   i \in 1..Len(obj.PosRuleSet)}
    ELSE {}

\* the donor's glyph names that are not the namespaced name of a donor glyph
UnprefixedDonorNames ==
    Range(inter_font.glyphOrder)
        \ {"inter_" \o inter_font.glyphOrder[i] : i \in 1..Len(inter_font.glyphOrder)}

\* C2: after a merge of a donor with a positioning table, no un-prefixed
\* donor glyph name is left in any object that came from the donor table
\* (coverage lists, class maps, pair second glyphs, glyph sequences of
\* contextual rules), and every name in its coverage lists, class maps and
\* pair second-glyph fields is in the combined glyph order.
C2_NoDonorNameRemains ==
    GposMerged =>
        \A r \in DOMAIN inter_font.GPOS.heap :
            /\ IndexedNames(GPOS.heap[r]) \subseteq Range(glyphOrder)
            /\ (IndexedNames(GPOS.heap[r]) \cup RuleNames(GPOS.heap[r]))
                   \cap UnprefixedDonorNames = {}

\* an object of the donor table with each coverage glyph, class-map key and
\* pair second glyph rewritten through the name map once
RewrittenOnce(obj) ==
    [a \in DOMAIN obj |->
        CASE a = "glyphs" -> [i \in 1..Len(obj.glyphs) |-> "inter_" \o obj.glyphs[i]]
          [] a = "classDefs" ->
                [i \in 1..Len(obj.classDefs) |->
                    <<"inter_" \o obj.classDefs[i][1], obj.classDefs[i][2]>>]
          [] a = "PairSet" ->
                [i \in 1..Len(obj.PairSet) |->
                    [PairValueRecord |->
                        [j \in 1..Len(obj.PairSet[i].PairValueRecord) |->
                            [SecondGlyph |->
                                "inter_" \o obj.PairSet[i].PairValueRecord[j].SecondGlyph]]]]
          [] OTHER -> obj[a]]

\* C10: the traversal rewrites every glyph name of a coverage list, class map
\* and pair second-glyph field of the donor table exactly once: the stored
\* name of donor name g is name_map[g], never name_map[name_map[g]], for every
\* object however many paths reach it.
C10_RewrittenExactlyOnce ==
    GposMerged =>
        \A r \in DOMAIN inter_font.GPOS.heap :
            GPOS.heap[r] = RewrittenOnce(inter_font.GPOS.heap[r])

-----------------------------------------------------------------------------
(* Repeated merges into one font object *)

\* primary glyph orders: without and with a name that starts with the merge prefix
TargetGlyphOrderChoices == {<<"uni4E00">>, <<"uni4E00", "inter_A">>}

\* the second glyph of the donor: an outline, or a composite of the first
\* (in a donor with no positioning table or with one lookup)
DonorSecondGlyphChoices ==
    {SimpleGlyph(<<<<20, 0>>, <<580, 700>>>>),
     CompositeGlyph(<<[glyphName |-> "A", x |-> 0, y |-> 0]>>, <<20, 0, 580, 700>>)}

InitMerge ==
    /\ pc = "start"
    /\ glyphOrder \in TargetGlyphOrderChoices
    /\ glyf = [g \in Range(glyphOrder) |-> SimpleGlyph(<<<<50, -100>>, <<950, 800>>>>)]
    /\ hmtx = [g \in Range(glyphOrder) |-> <<1000, 50>>]
    /\ GSUB = None
    /\ GPOS \in {None} \cup TargetGposChoices({"DFLT"})
    /\ cmap = <<[format |-> 4, isUnicode |-> TRUE, cmap |-> (19968 :> "uni4E00")]>>
    /\ inter_gpos_merged = FALSE
    /\ \E names \in DonorGlyphOrderChoices :
          \E gpos \in {None} \cup DonorGposChoices(names),
             second \in DonorSecondGlyphChoices :
              /\ isComposite(second) => (IF gpos = None THEN TRUE ELSE gpos.LookupCount = 1)
              /\ inter_font = [glyphOrder |-> names,
                               table_tags |-> {},
                               glyf |-> [g \in Range(names) |->
                                            IF g = names[2] THEN second
                                            ELSE SimpleGlyph(<<<<20, 0>>, <<580, 700>>>>)],
                               hmtx |-> [g \in Range(names) |-> <<600, 20>>],
                               GPOS |-> gpos,
                               cmap |-> <<[format |-> 4, isUnicode |-> TRUE,
                                           cmap |-> (65 :> "A")]>>]
    /\ cjk_width_extend_percent = 0
    /\ config = NoConfig
    /\ table_tags = {}
    /\ info = NoInfo
    /\ saved = <<>>
    /\ calls = <<>>
    /\ pre = [glyphOrder |-> glyphOrder, glyf |-> glyf, hmtx |-> hmtx, GPOS |-> GPOS,
              cmap |-> cmap]

NextMerge == merge_inter_font \/ merge_inter_font_again

SpecMerge == InitMerge /\ [][NextMerge]_vars

\* C11: after merge_inter_font the glyph order is the order before the merge
\* followed by prefix+name for every donor glyph in donor order, and every
\* glyph name occurs in it exactly once, whatever the primary glyph order was
\* and however many merges were invoked on the font object.
C11_GlyphOrderUnique ==
    pc = "merge_inter_font" =>
        /\ glyphOrder = pre.glyphOrder
               \o [i \in 1..Len(inter_font.glyphOrder) |-> "inter_" \o inter_font.glyphOrder[i]]
        /\ \A i, j \in 1..Len(glyphOrder) : glyphOrder[i] = glyphOrder[j] => i = j

\* the lookup indices of the features and the feature indices of the
\* language systems of a positioning table, with the three list lengths
IndexStructure(gpos) ==
    IF gpos = None THEN None
    ELSE [lookups |-> Len(gpos.LookupList),
          features |-> [f \in 1..Len(gpos.FeatureRecord) |-> gpos.FeatureRecord[f].LookupListIndex],
          scripts |-> [r \in 1..Len(gpos.ScriptRecord) |->
                          [DefaultLangSys |-> gpos.ScriptRecord[r].DefaultLangSys,
                           LangSysRecord |-> gpos.ScriptRecord[r].LangSysRecord]]]

\* C12: a merge invoked on a font object that was merged before leaves the
\* numbers of lookups, features and scripts and every lookup index and feature
\* index of the positioning table as they were.
C12_SecondMergeKeepsGpos ==
    (pc = "merge_inter_font" /\ Len(calls) >= 2) =>
        IndexStructure(GPOS) = IndexStructure(pre.GPOS)

\* a second merge of a donor with a positioning table into a font that has one
C12_Witness ==
    /\ pc = "merge_inter_font"
    /\ Len(calls) = 2
    /\ inter_font.GPOS # None
    /\ GPOS # None
    /\ Len(GPOS.LookupList) > Len(inter_font.GPOS.LookupList)

\* C13: after a merge into a primary with a positioning table, every lookup
\* index of every feature is below the number of lookups, every feature index
\* of every language system is below the number of features, and the three
\* stored counts are the lengths of their lists.
C13_IndicesInRange ==
    GposAppended =>
        /\ \A f \in 1..Len(GPOS.FeatureRecord) :
              \A k \in 1..Len(GPOS.FeatureRecord[f].LookupListIndex) :
                  GPOS.FeatureRecord[f].LookupListIndex[k] \in 0..(Len(GPOS.LookupList) - 1)
        /\ \A r \in 1..Len(GPOS.ScriptRecord) :
              /\ GPOS.ScriptRecord[r].DefaultLangSys # None =>
                    \A k \in 1..Len(GPOS.ScriptRecord[r].DefaultLangSys.FeatureIndex) :
                        GPOS.ScriptRecord[r].DefaultLangSys.FeatureIndex[k]
                            \in 0..(Len(GPOS.FeatureRecord) - 1)
              /\ \A l \in 1..Len(GPOS.ScriptRecord[r].LangSysRecord) :
                    \A k \in 1..Len(GPOS.ScriptRecord[r].LangSysRecord[l].FeatureIndex) :
                        GPOS.ScriptRecord[r].LangSysRecord[l].FeatureIndex[k]
                            \in 0..(Len(GPOS.FeatureRecord) - 1)
        /\ GPOS.LookupCount = Len(GPOS.LookupList)
        /\ GPOS.FeatureCount = Len(GPOS.FeatureRecord)
        /\ GPOS.ScriptCount = Len(GPOS.ScriptRecord)

\* a merge that appended a donor feature using the donor's last lookup to a
\* primary with two lookups
C13_Witness ==
    /\ GposAppended
    /\ Len(pre.GPOS.LookupList) = 2
    /\ \E k \in 1..Len(GPOS.FeatureRecord[2].LookupListIndex) :
          GPOS.FeatureRecord[2].LookupListIndex[k] = Len(GPOS.LookupList) - 1

-----------------------------------------------------------------------------
(* Inputs of the merge: character maps *)
MaxCmapTables == 2

\* 0x1F, 0x20, 'A', 0x7E, 0x7F, 0x9F, 0xA0, 0xFFFF, 0x10000
CodePointChoices == {31, 32, 65, 126, 127, 159, 160, 65535, 65536}

CmapWidthChoices == {999, 1000, MaxWidth}

\* encoding-table kinds: Windows/Unicode format 4 and format 12, a Unicode
\* format 6 (trimmed, 16-bit) table, and a Macintosh format 0 (byte) table
CmapTableKinds ==
    {[format |-> 4, isUnicode |-> TRUE], [format |-> 12, isUnicode |-> TRUE],
     [format |-> 6, isUnicode |-> TRUE], [format |-> 0, isUnicode |-> FALSE]}

\* the code points an encoding table of a format can hold
CanHold(format, cp) ==
    CASE format = 0 -> cp <= 255
      [] format \in {4, 6} -> cp <= 65535
      [] OTHER -> TRUE

\* The primary's character map is one mapping seen through several encoding
\* tables: U+4E00 -> uni4E00 and, when binding is a glyph, cp -> binding; each
\* table holds the entries its format can hold, and the entry for cp only
\* when covers says so.
TargetCmapTable(kind, cp, binding, covers) ==
    [format |-> kind.format,
     isUnicode |-> kind.isUnicode,
     cmap |-> dict_update(
                 IF CanHold(kind.format, 19968) THEN (19968 :> "uni4E00") ELSE <<>>,
                 IF binding # "" /\ covers /\ CanHold(kind.format, cp)
                 THEN (cp :> binding) ELSE <<>>)]

InitCmap ==
    /\ pc = "start"
    /\ glyphOrder = <<"uni4E00", "g">>
    /\ glyf = [g \in {"uni4E00", "g"} |-> SimpleGlyph(<<<<10, -100>>, <<950, 800>>>>)]
    /\ \E w \in CmapWidthChoices : hmtx = ("uni4E00" :> <<1000, 10>>) @@ ("g" :> <<w, 10>>)
    /\ GSUB = None
    /\ GPOS = None
    /\ \E cp \in CodePointChoices, binding \in {"", "g", "uni4E00"} :
          /\ \E n \in 1..MaxCmapTables :
                \E kinds \in [1..n -> CmapTableKinds], covers \in [1..n -> BOOLEAN] :
                    cmap = [t \in 1..n |-> TargetCmapTable(kinds[t], cp, binding, covers[t])]
          /\ \E twoTables \in BOOLEAN :
                inter_font =
                    [glyphOrder |-> <<"exclam", "A">>,
                     table_tags |-> {},
                     glyf |-> [g \in {"exclam", "A"} |->
                                  SimpleGlyph(<<<<20, 0>>, <<480, 700>>>>)],
                     hmtx |-> ("exclam" :> <<500, 20>>) @@ ("A" :> <<600, 20>>),
                     GPOS |-> None,
                     cmap |-> IF twoTables
                              THEN <<[format |-> 4, isUnicode |-> TRUE,
                                      cmap |-> dict_update((33 :> "exclam"),
                                                  IF cp <= 65535 THEN (cp :> "A") ELSE <<>>)],
                                     [format |-> 12, isUnicode |-> TRUE,
                                      cmap |-> (33 :> "exclam") @@ (cp :> "A")]>>
                              ELSE <<[format |-> 12, isUnicode |-> TRUE,
                                      cmap |-> (33 :> "exclam") @@ (cp :> "A")]>>]
    /\ inter_gpos_merged = FALSE
    /\ cjk_width_extend_percent = 0
    /\ config = NoConfig
    /\ table_tags = {}
    /\ info = NoInfo
    /\ saved = <<>>
    /\ calls = <<>>
    /\ pre = [glyphOrder |-> glyphOrder, glyf |-> glyf, hmtx |-> hmtx, GPOS |-> GPOS,
              cmap |-> cmap]

NextCmap == merge_inter_font

SpecCmap == InitCmap /\ [][NextCmap]_vars

\* the code points bound by some table of a character map
BoundCodePoints(tables) == UNION {DOMAIN tables[t].cmap : t \in 1..Len(tables)}

\* the glyphs a character map binds a code point to
Bindings(tables, cp) ==
    {tables[t].cmap[cp] : t \in {u \in 1..Len(tables) : cp \in DOMAIN tables[u].cmap}}

\* the binding of a code point in one table, "" when the table has none
BindingIn(table, cp) == IF cp \in DOMAIN table.cmap THEN table.cmap[cp] ELSE ""

\* the namespaced donor glyph of a donor-covered code point
DonorGlyph(cp) == "inter_" \o (CHOOSE g \in Bindings(inter_font.cmap, cp) : TRUE)

\* control characters: below 0x20, and 0x7F..0x9F
IsControl(cp) == cp \in (0..31) \cup (127..159)

\* the primary bound the code point, before the merge, to a glyph of width exactly 1000
BoundToWidth1000(cp) == \E g \in Bindings(pre.cmap, cp) : pre.hmtx[g][1] = 1000

\* the tables the rewrite writes a code point to: Unicode tables of format 4
\* (code points up to 0xFFFF) and of format 12
WrittenTables(cp) ==
    {t \in 1..Len(cmap) :
        /\ cmap[t].isUnicode
        /\ (cmap[t].format = 4 /\ cp <= 65535) \/ cmap[t].format = 12}

\* C7: every code point of the donor's character map that is not a control
\* character and that the primary did not bind to a glyph of width exactly
\* 1000 (widths above 1000 included) is redirected to the namespaced donor
\* glyph in the tables the rewrite writes.
C7_RedirectsAllButWidth1000 ==
    pc = "merge_inter_font" =>
        \A cp \in BoundCodePoints(inter_font.cmap) :
            (~IsControl(cp) /\ ~BoundToWidth1000(cp)) =>
                \A t \in WrittenTables(cp) : BindingIn(cmap[t], cp) = DonorGlyph(cp)

\* C8: the rewrite changes, in no encoding table, the binding of a code point
\* that the primary bound to a glyph of width exactly 1000, nor the binding of
\* a control code point.
C8_ProtectedBindingsKept ==
    pc = "merge_inter_font" =>
        \A cp \in BoundCodePoints(inter_font.cmap) \cup BoundCodePoints(pre.cmap) :
            (BoundToWidth1000(cp) \/ IsControl(cp)) =>
                \A t \in 1..Len(cmap) : BindingIn(cmap[t], cp) = BindingIn(pre.cmap[t], cp)

\* a donor-covered, non-control code point that a written table of the primary
\* bound to the glyph g of width exactly 1000, and still binds to it
C8_Witness ==
    /\ pc = "merge_inter_font"
    /\ pre.hmtx["g"][1] = 1000
    /\ \E cp \in BoundCodePoints(inter_font.cmap) :
          /\ ~IsControl(cp)
          /\ \E t \in WrittenTables(cp) :
                BindingIn(pre.cmap[t], cp) = "g" /\ BindingIn(cmap[t], cp) = "g"

\* the code points some table was redirected at
RedirectedCodePoints ==
    {cp \in BoundCodePoints(inter_font.cmap) :
        \E t \in 1..Len(cmap) :
            BindingIn(cmap[t], cp) # BindingIn(pre.cmap[t], cp)}

\* C9: a redirection is applied to every Unicode encoding table: each one
\* that can hold the code point binds it to the namespaced donor glyph, a
\* 16-bit table has no entry for a code point above 0xFFFF, and none keeps the
\* old binding.
C9_RedirectedInEveryTable ==
    pc = "merge_inter_font" =>
        \A cp \in RedirectedCodePoints :
            \A t \in {u \in 1..Len(cmap) : cmap[u].isUnicode} :
                IF cmap[t].format \in {4, 6} /\ cp > 65535
                THEN cp \notin DOMAIN cmap[t].cmap
                ELSE BindingIn(cmap[t], cp) = DonorGlyph(cp)

-----------------------------------------------------------------------------
(* Punctuation replacement of the merge *)

\* Bounds of the punctuation inputs: the widest donor glyph, the largest
\* donor left side-bearing
MaxDonorWidth == 1201
MaxDonorLsb == 35

\* U+FF0C, U+FF1A, U+FF1B, U+FF01, U+FF1F and the primary glyphs bound to them
FullwidthMarks ==
    (65292 :> "uniFF0C") @@ (65306 :> "uniFF1A") @@ (65307 :> "uniFF1B")
        @@ (65281 :> "uniFF01") @@ (65311 :> "uniFF1F")

PuncGlyphOrder == <<"uni4E00", "uniFF0C", "uniFF1A", "uniFF1B", "uniFF01", "uniFF1F">>

\* the encoding tables of a primary: a Windows BMP table, alone or followed by
\* a Windows full-repertoire table, or a Unicode-platform table; every table
\* holds the whole mapping
PuncCmapChoices(mapping) ==
    LET table(platformID, platEncID, format) ==
            [platformID |-> platformID, platEncID |-> platEncID, format |-> format,
             isUnicode |-> TRUE, cmap |-> mapping]
    IN  {<<table(3, 1, 4)>>, <<table(3, 1, 4), table(3, 10, 12)>>, <<table(0, 3, 4)>>}

\* a donor with the five marks (question left out when complete is FALSE),
\* every glyph with the metric <<width, lsb>> and an outline that starts at xMin
PuncDonor(complete, width, lsb, xMin) ==
    LET names == IF complete THEN <<"exclam", "question", "comma", "colon", "semicolon">>
                 ELSE <<"exclam", "comma", "colon", "semicolon">>
    IN  [glyphOrder |-> names,
         table_tags |-> {},
         glyf |-> [g \in Range(names) |-> SimpleGlyph(<<<<xMin, -10>>, <<xMin + 100, 700>>>>)],
         hmtx |-> [g \in Range(names) |-> <<width, lsb>>],
         GPOS |-> None,
         cmap |-> <<[platformID |-> 3, platEncID |-> 1, format |-> 4, isUnicode |-> TRUE,
                     cmap |-> (33 :> "exclam") @@ (44 :> "comma")]>>]

InitPunc ==
    /\ pc = "start"
    /\ glyphOrder = PuncGlyphOrder
    /\ glyf = [g \in Range(PuncGlyphOrder) |-> SimpleGlyph(<<<<400, 100>>, <<601, 701>>>>)]
    /\ \E w \in {1000, 1001} : hmtx = [g \in Range(PuncGlyphOrder) |-> <<w, 400>>]
    /\ GSUB = None
    /\ GPOS = None
    /\ \E covered \in SUBSET (DOMAIN FullwidthMarks) :
          cmap \in PuncCmapChoices(dict_update((19968 :> "uni4E00"),
                                               [cp \in covered |-> FullwidthMarks[cp]]))
    /\ inter_gpos_merged = FALSE
    /\ \E complete \in BOOLEAN, width \in {300, 301, MaxDonorWidth},
          lsb \in {0, MaxDonorLsb}, xMin \in {0, 35} :
              inter_font = PuncDonor(complete, width, lsb, xMin)
    /\ cjk_width_extend_percent = 0
    /\ \E tier \in 0..2 : config = [NoConfig EXCEPT !.replace_punc = tier]
    /\ table_tags = {}
    /\ info = NoInfo
    /\ saved = <<>>
    /\ calls = <<>>
    /\ pre = [glyphOrder |-> glyphOrder, glyf |-> glyf, hmtx |-> hmtx, GPOS |-> GPOS,
              cmap |-> cmap]

NextPunc == merge_inter_font

SpecPunc == InitPunc /\ [][NextPunc]_vars

\* the code points of a punctuation tier
TierCodePoints(tier) ==
    IF tier >= 2 THEN {65292, 65306, 65307, 65281, 65311}
    ELSE IF tier = 1 THEN {65281, 65311}
    ELSE {}

\* the donor glyph that replaces the mark at a code point
DonorMark(cp) ==
    CASE cp = 65292 -> "comma" [] cp = 65306 -> "colon" [] cp = 65307 -> "semicolon"
      [] cp = 65281 -> "exclam" [] cp = 65311 -> "question"

\* the primary glyphs the primary's character map binds to the code points of the tier
TierGlyphs(tier) == UNION {Bindings(pre.cmap, cp) : cp \in TierCodePoints(tier)}

\* the points of a glyph moved right by dx
MovedRight(glyph, dx) ==
    [i \in 1..Len(glyph.coordinates) |->
        <<glyph.coordinates[i][1] + dx, glyph.coordinates[i][2]>>]

-----------------------------------------------------------------------------
(* The other stages of extract_font and build_font *)

VariationTags == {"fvar", "gvar", "cvar", "avar", "HVAR", "MVAR"}

\* extract_font.py 340: instantiateVariableFont(font, axis_settings) with every
\* axis of the font pinned leaves a static font, without the variation
\* tables.  The glyphs of a variable font stand for their outlines at the
\* pinned location, so the deltas the instancer adds are not part of the model.
instantiateVariableFont ==
    /\ next_call = "instantiateVariableFont"
    /\ table_tags' = table_tags \ VariationTags
    /\ pc' = "instantiateVariableFont"
    /\ calls' = Append(calls, "instantiateVariableFont")
    /\ UNCHANGED <<glyphOrder, glyf, hmtx, GSUB, GPOS, cmap, inter_gpos_merged, inter_font,
                   cjk_width_extend_percent, config, info, saved, pre>>

\* extract_font.py 342: removeOverlaps(font) merges the contours that overlap;
\* the glyphs here have no overlapping contours, and it leaves them as they are
removeOverlaps ==
    /\ next_call = "removeOverlaps"
    /\ pc' = "removeOverlaps"
    /\ calls' = Append(calls, "removeOverlaps")
    /\ UNCHANGED <<glyphOrder, glyf, hmtx, GSUB, GPOS, cmap, inter_gpos_merged, inter_font,
                   cjk_width_extend_percent, config, table_tags, info, saved, pre>>

\* extract_font.py 79-82: what the decomposing pen draws for a list of
\* components (DecomposingPen.addComponent): each base glyph drawn by the
\* glyph set below the top level, where no side-bearing offset is applied,
\* moved by the offset of the component; a base that is a composite is drawn
\* through its own components, one call deeper.  Nothing looks for a cycle:
\* the calls nest until the interpreter's recursion limit (1000 frames)
\* raises RecursionError.  Components that form no cycle nest at most as
\* deep as there are glyphs, so a depth beyond the number of glyphs is a
\* descent that only the limit ends.
RECURSIVE decomposed_outline(_, _, _)
decomposed_outline(glyf_table, components, depth) ==
    IF depth > Cardinality(DOMAIN glyf_table) THEN [raised |-> "RecursionError"]
    ELSE IF components = <<>> THEN [numberOfContours |-> 0, coordinates |-> <<>>]
    ELSE LET c == Head(components)
             base == glyf_table[c.glyphName]
             nested == decomposed_outline(glyf_table, base.components, depth + 1)
             drawn == IF ~isComposite(base) THEN drawn_glyph(base, 0, translate(c.x, c.y))
                      ELSE IF hasattr(nested, "raised") THEN nested
                      ELSE [numberOfContours |-> nested.numberOfContours,
                            coordinates |-> transformed_points(nested.coordinates, 0,
                                                               translate(c.x, c.y))]
             rest == decomposed_outline(glyf_table, Tail(components), depth)
         IN  IF hasattr(drawn, "raised") THEN drawn
             ELSE IF hasattr(rest, "raised") THEN rest
             ELSE [numberOfContours |-> drawn.numberOfContours + rest.numberOfContours,
                   coordinates |-> drawn.coordinates \o rest.coordinates]

\* a loop that decomposes a composite only when its components are simple
RECURSIVE decomposed_glyphs_simple_bases(_, _)
decomposed_glyphs_simple_bases(st, names) ==
    IF names = <<>> THEN st
    ELSE LET g == st.glyf[Head(names)]
             nested == isComposite(g) /\ \E i \in 1..Len(g.components) :
                           isComposite(st.glyf[g.components[i].glyphName])
             new_glyph == recalcBounds(decomposed_outline(st.glyf, g.components, 1))
         IN  decomposed_glyphs_simple_bases(
                 IF isComposite(g) /\ ~nested
                 THEN [st EXCEPT !.glyf[Head(names)] = new_glyph] ELSE st,
                 Tail(names))

\* extract_font.py 69-92: the loop over the glyph order; a composite glyph is
\* replaced by the simple glyph drawn for it, with its bounds recalculated.
\* An exception of the drawing ends the loop, the glyphs replaced so far
\* staying replaced in the font object.
RECURSIVE decomposed_glyphs(_, _)
decomposed_glyphs(st, names) ==
    IF names = <<>> \/ st.raised # "" THEN st
    ELSE LET g == st.glyf[Head(names)]
             outline == decomposed_outline(st.glyf, g.components, 1)
         IN  decomposed_glyphs(
                 IF ~isComposite(g) THEN st
                 ELSE IF hasattr(outline, "raised") THEN [st EXCEPT !.raised = outline.raised]
                 ELSE [st EXCEPT !.glyf[Head(names)] = recalcBounds(outline)],
                 Tail(names))

\* decompose_composites(font) on the font object; the metrics are written
\* back as they were (88-89)
decompose_composites_call ==
    \E decomposed \in {decomposed_glyphs([glyf |-> glyf, raised |-> ""], glyphOrder)} :
        /\ pre' = [glyf |-> glyf, hmtx |-> hmtx]
        /\ glyf' = decomposed.glyf
        /\ pc' = IF decomposed.raised # "" THEN decomposed.raised ELSE "decompose_composites"
        /\ calls' = IF decomposed.raised # "" THEN calls
                    ELSE Append(calls, "decompose_composites")
        /\ UNCHANGED <<glyphOrder, hmtx, GSUB, GPOS, cmap, inter_gpos_merged, inter_font,
                       cjk_width_extend_percent, config, table_tags, info, saved>>

\* extract_font.py 49-97, called on a font object or by extract_font (349)
decompose_composites ==
    /\ pc = "start" \/ next_call = "decompose_composites"
    /\ decompose_composites_call

\* Bound on the number of decompositions invoked on one font object
MaxDecompositions == 2

\* the decomposition run again on the font object a decomposition returned from
decompose_composites_again ==
    /\ running = ""
    /\ pc = "decompose_composites"
    /\ Len(calls) < MaxDecompositions
    /\ decompose_composites_call

\* build_font.py 89-104: STAT, every table whose tag starts with 'cv' and GSUB
\* are deleted
remove_font_tables ==
    /\ pc = "start" \/ next_call = "remove_font_tables"
    /\ pre' = [GSUB |-> GSUB, table_tags |-> table_tags]
    /\ table_tags' = {tag \in table_tags : tag # "STAT" /\ ~startswith(tag, "cv")}
    /\ GSUB' = None
    /\ pc' = "remove_font_tables"
    /\ calls' = Append(calls, "remove_font_tables")
    /\ UNCHANGED <<glyphOrder, glyf, hmtx, GPOS, cmap, inter_gpos_merged, inter_font,
                   cjk_width_extend_percent, config, info, saved>>

\* str.replace(" ", "-") on a string held as the sequence of its words and separators
RECURSIVE replace_spaces(_)
replace_spaces(string) ==
    IF string = <<>> THEN <<>>
    ELSE <<IF Head(string) = " " THEN "-" ELSE Head(string)>> \o replace_spaces(Tail(string))

\* build_font.py 62-77: the name records without nameID 17, with the family
\* name and the full name (1, 4), the PostScript name (6), the version (5)
\* and the subfamily (2) replaced
RECURSIVE renamed(_, _, _)
renamed(names, new_name, new_version) ==
    IF names = <<>> THEN <<>>
    ELSE LET record == Head(names)
             string == CASE record.nameID \in {1, 4} -> new_name
                         [] record.nameID = 6 -> replace_spaces(new_name)
                         [] record.nameID = 5 -> new_version
                         [] record.nameID = 2 -> <<"Regular">>
                         [] OTHER -> record.string
         IN  (IF record.nameID = 17 THEN <<>> ELSE <<[record EXCEPT !.string = string]>>)
                 \o renamed(Tail(names), new_name, new_version)

set_font_parameter ==
    /\ pc = "start" \/ next_call = "set_font_parameter"
    /\ pre' = [info |-> info]
    /\ info' = [info EXCEPT !.names = renamed(@, config.font_name, config.font_version)]
    /\ pc' = "set_font_parameter"
    /\ calls' = Append(calls, "set_font_parameter")
    /\ UNCHANGED <<glyphOrder, glyf, hmtx, GSUB, GPOS, cmap, inter_gpos_merged, inter_font,
                   cjk_width_extend_percent, config, table_tags, saved>>

\* build_font.py 80-86
set_line_gap ==
    /\ pc = "start" \/ next_call = "set_line_gap"
    /\ pre' = [info |-> info]
    /\ info' = [info EXCEPT
                   !.lineGap = IF "hhea" \in table_tags THEN config.new_line_gap ELSE @,
                   !.sTypoLineGap = IF "OS/2" \in table_tags THEN config.new_line_gap ELSE @,
                   !.usWinAscent = IF "OS/2" \in table_tags
                                   THEN @ + config.new_line_gap \div 2 ELSE @,
                   !.usWinDescent = IF "OS/2" \in table_tags
                                    THEN @ + config.new_line_gap \div 2 ELSE @]
    /\ pc' = "set_line_gap"
    /\ calls' = Append(calls, "set_line_gap")
    /\ UNCHANGED <<glyphOrder, glyf, hmtx, GSUB, GPOS, cmap, inter_gpos_merged, inter_font,
                   cjk_width_extend_percent, config, table_tags, saved>>

\* the path of a font file
Path(name) == [path |-> name]

\* font.save(path), extract_font.py 362 and build_font.py 146: the font is
\* written with the bounds of every glyph recalculated
save ==
    /\ next_call = "save"
    /\ saved' = Append(saved,
                       [path |-> config.output_path,
                        font |-> [glyphOrder |-> glyphOrder,
                                  glyf |-> [g \in DOMAIN glyf |-> recalcBounds(glyf[g])],
                                  hmtx |-> hmtx, GSUB |-> GSUB, GPOS |-> GPOS, cmap |-> cmap,
                                  table_tags |-> table_tags, info |-> info]])
    /\ pc' = "save"
    /\ calls' = Append(calls, "save")
    /\ UNCHANGED <<glyphOrder, glyf, hmtx, GSUB, GPOS, cmap, inter_gpos_merged, inter_font,
                   cjk_width_extend_percent, config, table_tags, info, pre>>

-----------------------------------------------------------------------------
(* build.py: run_build_from_config for one profile with one weight, one     *)
(* width, one punctuation tier and one stylistic set, in an empty temporary *)
(* directory.  config.main is the profile: src_latin (a path or None),     *)
(* build_default_latin, axis and latin_axis (None when empty), transform   *)
(* and latin_transform, expand_width in hundredths, replace_punc, apply_ss  *)
(* (a tag or ""), name, version and new_line_gap.                           *)

\* build.py 78-147: the calls of extract_font and build_font, in order, each
\* with its arguments
main_calls(run) ==
    LET latin_out == IF run.src_latin # None /\ run.latin_axis # None           \* 79
                     THEN Path("latin_out") ELSE None
        extract_latin ==
            [NoConfig EXCEPT !.main = run, !.input_path = run.src_latin,
                             !.output_path = latin_out,
                             !.axis_settings = run.latin_axis,
                             !.transform = run.latin_transform]
        extract_cjk ==
            [NoConfig EXCEPT !.main = run, !.input_path = Path("src"),
                             !.output_path = Path("cjk_out"),
                             !.axis_settings = run.axis,
                             !.skip_decomposition = TRUE,
                             !.transform = run.transform,
                             !.cjk_mode_transform = TRUE]
        build ==
            [NoConfig EXCEPT !.main = run, !.input_path = Path("cjk_out"),
                             !.output_path = Path("output"),
                             !.apply_stylistic_set = run.apply_ss,
                             !.font_name = run.name,
                             !.font_version = run.version,
                             !.new_line_gap = run.new_line_gap,
                             !.merge_font_path = latin_out,
                             !.replace_punc = run.replace_punc]
        build_no_latin ==
            [build EXCEPT !.output_path = Path("output_DF"), !.merge_font_path = None,
                          !.replace_punc = 0]
    IN  (IF latin_out # None THEN <<[call |-> "extract_font", args |-> extract_latin]>>
         ELSE <<>>)
        \o <<[call |-> "extract_font", args |-> extract_cjk]>>
        \o (IF latin_out # None /\ run.build_default_latin                      \* 119
            THEN <<[call |-> "build_font", args |-> build_no_latin]>> ELSE <<>>)
        \o <<[call |-> "build_font", args |-> build]>>

\* the next of main_calls: the one after the calls of extract_font and
\* build_font made so far, None when all were made
main_next ==
    LET made == Cardinality({i \in 1..Len(calls) : calls[i] \in {"extract_font", "build_font"}})
    IN  IF config.main = None \/ made >= Len(main_calls(config.main)) THEN None
        ELSE main_calls(config.main)[made + 1]

\* TTFont(path): the font of the file last written under the path
TTFont(path) ==
    saved[SetMax({i \in 1..Len(saved) : saved[i].path = path})].font

\* extract_font.py 325-337: the font is opened; a variable font without axis
\* settings is refused
extract_font ==
    /\ pc \in {"main", "save"}
    /\ main_next # None
    /\ main_next.call = "extract_font"
    /\ LET args == main_next.args
           font == TTFont(args.input_path)
       IN  /\ config' = args
           /\ glyphOrder' = font.glyphOrder
           /\ glyf' = font.glyf
           /\ hmtx' = font.hmtx
           /\ GSUB' = font.GSUB
           /\ GPOS' = font.GPOS
           /\ cmap' = font.cmap
           /\ table_tags' = font.table_tags
           /\ info' = font.info
           /\ IF extract_font_next("extract_font", args, font.table_tags) = "ValueError"
              THEN pc' = "ValueError" /\ calls' = calls
              ELSE pc' = "extract_font" /\ calls' = Append(calls, "extract_font")
    /\ inter_gpos_merged' = FALSE
    /\ inter_font' = None
    /\ UNCHANGED <<cjk_width_extend_percent, saved, pre>>

\* build_font.py 107-112: the font is opened; a font with a variation table is
\* refused.  The donor is the file at merge_font_path, which merge_inter_font
\* opens (line 386) and no call in between writes.
build_font ==
    /\ pc \in {"main", "save"}
    /\ main_next # None
    /\ main_next.call = "build_font"
    /\ LET args == main_next.args
           static_font == TTFont(args.input_path)
       IN  /\ config' = args
           /\ glyphOrder' = static_font.glyphOrder
           /\ glyf' = static_font.glyf
           /\ hmtx' = static_font.hmtx
           /\ GSUB' = static_font.GSUB
           /\ GPOS' = static_font.GPOS
           /\ cmap' = static_font.cmap
           /\ table_tags' = static_font.table_tags
           /\ info' = static_font.info
           /\ inter_font' = IF args.merge_font_path # None THEN TTFont(args.merge_font_path)
                            ELSE None
           /\ cjk_width_extend_percent' = args.main.expand_width
           /\ IF static_font.table_tags \cap {"cvar", "fvar", "gvar"} # {}          \* 111-112
              THEN pc' = "ValueError" /\ calls' = calls
              ELSE pc' = "build_font" /\ calls' = Append(calls, "build_font")
    /\ inter_gpos_merged' = FALSE
    /\ UNCHANGED <<saved, pre>>

\* the source fonts: a CJK font with an alternate of uni4E00 under ss01 and a
\* locl feature, and a Latin font with a composite glyph; either may be
\* variable, and of two static fonts the CJK font may have a narrow composite
\* glyph of its own or the Latin font may lack the question mark
SourceInfo ==
    [names |-> <<[nameID |-> 1, string |-> <<"Source">>],
                 [nameID |-> 2, string |-> <<"Bold">>],
                 [nameID |-> 4, string |-> <<"Source", " ", "Bold">>],
                 [nameID |-> 5, string |-> <<"Version", " ", "1.0">>],
                 [nameID |-> 6, string |-> <<"Source", "-", "Bold">>],
                 [nameID |-> 17, string |-> <<"Bold">>]>>,
     lineGap |-> 0, sTypoLineGap |-> 0, usWinAscent |-> 1000, usWinDescent |-> 300]

SourceCjk(variable, composite) ==
    [glyphOrder |-> <<"uni4E00", "uni4E00.ss01", "uniFF01", "A">>
                       \o (IF composite THEN <<"Agrave">> ELSE <<>>),
     glyf |-> ("uni4E00" :> SimpleGlyph(<<<<50, -100>>, <<950, 800>>>>))
                @@ ("uni4E00.ss01" :> SimpleGlyph(<<<<60, -100>>, <<940, 800>>>>))
                @@ ("uniFF01" :> SimpleGlyph(<<<<100, 0>>, <<300, 700>>>>))
                @@ ("A" :> SimpleGlyph(<<<<20, 0>>, <<580, 700>>>>))
                @@ (IF composite
                    THEN "Agrave" :> CompositeGlyph(<<[glyphName |-> "A", x |-> 0, y |-> 0]>>,
                                                    <<20, 0, 580, 700>>)
                    ELSE <<>>),
     hmtx |-> ("uni4E00" :> <<1000, 50>>) @@ ("uni4E00.ss01" :> <<1000, 60>>)
                @@ ("uniFF01" :> <<1000, 100>>) @@ ("A" :> <<600, 20>>)
                @@ (IF composite THEN "Agrave" :> <<600, 20>> ELSE <<>>),
     GSUB |-> [FeatureRecord |-> <<[FeatureTag |-> "locl", Feature |-> [LookupListIndex |-> <<0>>]],
                                   [FeatureTag |-> "ss01", Feature |-> [LookupListIndex |-> <<0>>]]>>,
               ScriptRecord |-> <<[ScriptTag |-> "DFLT",
                                   DefaultLangSys |-> [FeatureIndex |-> <<0, 1>>],
                                   LangSysRecord |-> <<>>]>>,
               LookupList |-> <<[LookupType |-> 1,
                                 SubTable |-> <<[mapping |-> <<<<"uni4E00", "uni4E00.ss01">>>>]>>]>>],
     GPOS |-> None,
     cmap |-> <<[format |-> 4, isUnicode |-> TRUE, platformID |-> 3, platEncID |-> 1,
                 cmap |-> (19968 :> "uni4E00") @@ (65281 :> "uniFF01") @@ (65 :> "A")]>>,
     table_tags |-> {"name", "hhea", "OS/2", "STAT"}
                       \cup (IF variable THEN {"fvar", "gvar"} ELSE {}),
     info |-> SourceInfo]

SourceLatin(variable, complete) ==
    [glyphOrder |-> <<"A", "exclam">> \o (IF complete THEN <<"question">> ELSE <<>>)
                       \o <<"Aacute">>,
     glyf |-> ("A" :> SimpleGlyph(<<<<20, 0>>, <<580, 700>>>>))
                @@ ("exclam" :> SimpleGlyph(<<<<80, 0>>, <<180, 700>>>>))
                @@ (IF complete THEN "question" :> SimpleGlyph(<<<<40, 0>>, <<440, 700>>>>)
                    ELSE <<>>)
                @@ ("Aacute" :> CompositeGlyph(<<[glyphName |-> "A", x |-> 0, y |-> 0],
                                                 [glyphName |-> "exclam", x |-> 200, y |-> 700]>>,
                                               <<20, 0, 580, 1400>>)),
     hmtx |-> ("A" :> <<600, 20>>) @@ ("exclam" :> <<260, 80>>)
                @@ (IF complete THEN "question" :> <<480, 40>> ELSE <<>>)
                @@ ("Aacute" :> <<600, 20>>),
     GSUB |-> None,
     GPOS |-> None,
     cmap |-> <<[format |-> 4, isUnicode |-> TRUE, platformID |-> 3, platEncID |-> 1,
                 cmap |-> (65 :> "A") @@ (33 :> "exclam")
                             @@ (IF complete THEN 63 :> "question" ELSE <<>>)
                             @@ (193 :> "Aacute")]>>,
     table_tags |-> {"name", "hhea", "OS/2"}
                       \cup (IF variable THEN {"fvar", "gvar"} ELSE {}),
     info |-> SourceInfo]

InitBuild ==
    /\ pc = "main"
    /\ glyphOrder = <<>>
    /\ glyf = <<>>
    /\ hmtx = <<>>
    /\ GSUB = None
    /\ GPOS = None
    /\ cmap = <<>>
    /\ inter_gpos_merged = FALSE
    /\ inter_font = None
    /\ cjk_width_extend_percent = 0
    /\ \E src_latin \in {None, Path("src_latin")},
          latin_axis \in {None, [wght |-> 400]},
          axis \in {None, [wght |-> 700]},
          transform \in {None, Transform(90, 0, 0, 100, 0, 0, 100)},
          latin_transform \in {None, Transform(47, 0, 0, 47, 0, 1600, 100)},
          build_default_latin \in BOOLEAN,
          expand_width \in {0, 10},
          replace_punc \in {0, 1},
          apply_ss \in {"", "ss01"},
          new_line_gap \in {0, 100} :
              config = [NoConfig EXCEPT
                           !.main = [src_latin |-> src_latin, latin_axis |-> latin_axis,
                                     axis |-> axis, transform |-> transform,
                                     latin_transform |-> latin_transform,
                                     build_default_latin |-> build_default_latin,
                                     expand_width |-> expand_width,
                                     replace_punc |-> replace_punc, apply_ss |-> apply_ss,
                                     name |-> <<"Chiron", " ", "Sans">>,
                                     version |-> <<"25.091">>,
                                     new_line_gap |-> new_line_gap]]
    /\ table_tags = {}
    /\ info = NoInfo
    /\ \E cjk_variable \in BOOLEAN, latin_variable \in BOOLEAN,
          flaw \in {"", "composite", "question"} :
          /\ flaw # "" => ~cjk_variable /\ ~latin_variable
          /\ saved = <<[path |-> Path("src"),
                        font |-> SourceCjk(cjk_variable, flaw = "composite")],
                       [path |-> Path("src_latin"),
                        font |-> SourceLatin(latin_variable, flaw # "question")]>>
    /\ calls = <<>>
    /\ pre = [glyf |-> glyf, hmtx |-> hmtx]

NextBuild ==
    \/ extract_font
    \/ instantiateVariableFont
    \/ removeOverlaps
    \/ decompose_composites
    \/ apply_glyph_transform
    \/ apply_gpos_transform
    \/ build_font
    \/ apply_stylistic_sets
    \/ remove_stylistic_sets
    \/ remove_font_tables
    \/ remove_locl_feature
    \/ merge_inter_font
    \/ process_glyphs
    \/ set_font_parameter
    \/ set_line_gap
    \/ save

SpecBuild == InitBuild /\ [][NextBuild]_vars

\* calls i and j were made by the same call of extract_font or build_font
SameRun(i, j) ==
    \A k \in (i + 1)..j : calls[k] \notin {"extract_font", "build_font"}

\* the place of a call among the stages as the description lists them, 0
\* for a call that is none of them
ListedStage(call) ==
    CASE call = "instantiateVariableFont" -> 1
      [] call = "decompose_composites" -> 2
      [] call \in {"apply_glyph_transform", "apply_gpos_transform"} -> 3
      [] call = "process_glyphs" -> 4
      [] call = "apply_stylistic_sets" -> 5
      [] call = "merge_inter_font" -> 6
      [] call = "set_font_parameter" -> 7
      [] call = "save" -> 8
      [] OTHER -> 0

\* the place of a call among the stages with the width adjustment after the merge
Stage(call) ==
    CASE call = "instantiateVariableFont" -> 1
      [] call = "decompose_composites" -> 2
      [] call \in {"apply_glyph_transform", "apply_gpos_transform"} -> 3
      [] call = "apply_stylistic_sets" -> 4
      [] call = "merge_inter_font" -> 5
      [] call = "process_glyphs" -> 6
      [] call = "set_font_parameter" -> 7
      [] call = "save" -> 8
      [] OTHER -> 0

\* every call of extract_font is made before every call of build_font, and a
\* save is the last call of the function that makes it
ExtractThenBuildSaveLast ==
    /\ \A i, j \in 1..Len(calls) :
          (calls[i] = "extract_font" /\ calls[j] = "build_font") => i < j
    /\ \A i \in 1..(Len(calls) - 1) :
          calls[i] = "save" => calls[i + 1] \in {"extract_font", "build_font"}

\* C14 as stated: the stages run in the order instancing, decomposition,
\* transform, width adjustment, stylistic resolution, merge, renaming and
\* serialization, so that the width adjustment runs before the stylistic
\* resolution and before the merge.
C14_ListedOrder ==
    /\ ExtractThenBuildSaveLast
    /\ \A i, j \in 1..Len(calls) :
          (i < j /\ SameRun(i, j) /\ ListedStage(calls[i]) > 0 /\ ListedStage(calls[j]) > 0)
              => ListedStage(calls[i]) <= ListedStage(calls[j])

\* C14, amended: the stages run in the order instancing, decomposition,
\* transform (extract_font, which then writes its file), stylistic
\* resolution, merge, width adjustment, renaming and serialization
\* (build_font); the width adjustment runs after the stylistic resolution
\* and after the merge, and the serialization of a font is the last call made
\* for it.
C14_StageOrder ==
    /\ ExtractThenBuildSaveLast
    /\ \A i, j \in 1..Len(calls) :
          (i < j /\ SameRun(i, j) /\ Stage(calls[i]) > 0 /\ Stage(calls[j]) > 0)
              => Stage(calls[i]) <= Stage(calls[j])

\* a run that went through every stage and wrote the output file
C14_Witness ==
    /\ pc = "save"
    /\ main_next = None
    /\ \A call \in {"instantiateVariableFont", "decompose_composites", "apply_glyph_transform",
                    "apply_gpos_transform", "apply_stylistic_sets", "merge_inter_font",
                    "process_glyphs", "set_font_parameter", "save"} :
          call \in Range(calls)
    /\ saved[Len(saved)].path = Path("output")

-----------------------------------------------------------------------------
(* decompose_composites on a font object: composites, composites of         *)
(* composites, and component references that lead back to the glyph         *)

MaxComponentOffset == 2

DecomposeGlyphNames == {"A", "acute", "Aacute", "Ahook"}

\* a composite is listed before or after the glyphs it is built from
DecomposeGlyphOrderChoices ==
    {<<"A", "acute", "Aacute", "Ahook">>, <<"Ahook", "Aacute", "acute", "A">>}

Component(name, x, y) == [glyphName |-> name, x |-> x, y |-> y]

\* Aacute: an outline, A with acute above it, or a reference to Ahook
AacuteChoices(dx) ==
    {SimpleGlyph(<<<<10, 0>>, <<410, 900>>>>),
     CompositeGlyph(<<Component("A", 0, 0), Component("acute", dx, 200)>>, <<10, 0, 410, 900>>),
     CompositeGlyph(<<Component("Ahook", dx, 0)>>, <<10, 0, 410, 900>>)}

\* Ahook: an outline, Aacute with a second mark, or a reference to itself
AhookChoices(dx) ==
    {SimpleGlyph(<<<<10, 0>>, <<410, 950>>>>),
     CompositeGlyph(<<Component("Aacute", 0, 0), Component("acute", dx, 300)>>,
                    <<10, 0, 410, 950>>),
     CompositeGlyph(<<Component("A", dx, 0), Component("Ahook", 0, 0)>>, <<10, 0, 410, 950>>)}

InitDecompose ==
    /\ pc = "start"
    /\ glyphOrder \in DecomposeGlyphOrderChoices
    /\ \E dx \in 0..MaxComponentOffset, dx2 \in 0..MaxComponentOffset :
       \E aacute \in AacuteChoices(dx), ahook \in AhookChoices(dx2) :
          glyf = [n \in DecomposeGlyphNames |->
                     CASE n = "A" -> SimpleGlyph(<<<<10, 0>>, <<410, 700>>>>)
                       [] n = "acute" -> SimpleGlyph(<<<<150, 720>>, <<250, 800>>>>)
                       [] n = "Aacute" -> aacute
                       [] n = "Ahook" -> ahook]
    /\ hmtx \in [DecomposeGlyphNames -> {<<500, 10>>, <<500, 30>>}]
    /\ pre = [glyf |-> glyf, hmtx |-> hmtx]
    /\ GSUB = None
    /\ GPOS = None
    /\ cmap = <<>>
    /\ inter_gpos_merged = FALSE
    /\ inter_font = None
    /\ cjk_width_extend_percent = 0
    /\ config = NoConfig
    /\ table_tags = {}
    /\ info = NoInfo
    /\ saved = <<>>
    /\ calls = <<>>

NextDecompose == decompose_composites \/ decompose_composites_again

SpecDecompose == InitDecompose /\ [][NextDecompose]_vars

\* the glyphs of the glyph order that are composite
Composites(glyf_table) == {n \in Range(glyphOrder) : isComposite(glyf_table[n])}

\* C21: a decomposition that returns leaves no glyph of the glyph order
\* composite, and a decomposition run on its result finds no composite to
\* decompose (its count is zero) and leaves every outline and every metric
\* as it was.
C21_DecompositionIdempotent ==
    pc = "decompose_composites" =>
        /\ Composites(glyf) = {}
        /\ Len(calls) >= 2 =>
              /\ Composites(pre.glyf) = {}
              /\ glyf = pre.glyf
              /\ hmtx = pre.hmtx

\* a second run returned on a font whose Ahook was a composite of the
\* composite Aacute: its outline is the three contours of A, acute and acute
C21_Witness ==
    /\ pc = "decompose_composites"
    /\ Len(calls) = 2
    /\ glyf["Ahook"].numberOfContours = 3
    /\ glyf = pre.glyf

\* the glyphs a composite refers to, through any number of components
RECURSIVE ComponentClosure(_, _, _)
ComponentClosure(glyf_table, names, steps) ==
    IF steps = 0 THEN names
    ELSE ComponentClosure(glyf_table,
             names \cup UNION {{glyf_table[n].components[i].glyphName :
                                    i \in 1..Len(glyf_table[n].components)} :
                               n \in {m \in names : isComposite(glyf_table[m])}},
             steps - 1)

Ancestors(glyf_table, name) ==
    {n \in DOMAIN glyf_table :
        /\ isComposite(glyf_table[n])
        /\ name \in ComponentClosure(glyf_table,
                        {glyf_table[n].components[i].glyphName :
                             i \in 1..Len(glyf_table[n].components)},
                        Cardinality(DOMAIN glyf_table))}

\* some glyph is one of its own ancestors
HasReferenceCycle(glyf_table) == \E n \in DOMAIN glyf_table : n \in Ancestors(glyf_table, n)

\* C22: a decomposition of a glyph set with a composite reference cycle ends
\* with the format error (ValueError) of a detected cycle, and neither
\* returns nor ends in any other way.
C22_CycleIsFormatError ==
    (pc # "start" /\ HasReferenceCycle(pre.glyf)) => pc = "ValueError"

-----------------------------------------------------------------------------
(* The merge of a donor that has a composite glyph *)

\* the composite glyphs of the donor font
DonorComposites == {g \in Range(inter_font.glyphOrder) : isComposite(inter_font.glyf[g])}

-----------------------------------------------------------------------------
(* apply_glyph_transform on a font that still has a composite glyph *)

\* the glyphs the call is asked to transform: every glyph, and in CJK mode
\* the glyphs that the mode does not pass over
AskedToTransform(g) == ~config.cjk_mode_transform \/ ~cjk_mode_skips(pre.hmtx, g)

\* C24: apply_glyph_transform ends with the format error (ValueError) when a
\* glyph it is asked to transform is composite, in both modes, and only
\* then: a composite that CJK mode passes over (advance width other than
\* 1000) does not make the call fail.
C24_FailsOnlyOnTransformedComposite ==
    pc \in {"apply_glyph_transform", "ValueError"} =>
        (pc = "ValueError" <=>
            \E g \in Range(glyphOrder) : isComposite(pre.glyf[g]) /\ AskedToTransform(g))

-----------------------------------------------------------------------------
(* The script list of a merged positioning table *)

\* the features a script record of the given tag leads to, by their tags
ScriptFeatures(gpos, tag) ==
    {gpos.FeatureRecord[f + 1].FeatureTag :
        f \in UNION {Range(gpos.ScriptRecord[s].DefaultLangSys.FeatureIndex) :
                        s \in {r \in 1..Len(gpos.ScriptRecord) :
                                  gpos.ScriptRecord[r].ScriptTag = tag}}}

\* C25: in a positioning table into which a donor table was merged every
\* script tag occurs in one script record only, and the record of a tag that
\* the primary and the donor both had leads to the features of both.
C25_ScriptTagsUnique ==
    (pc = "merge_inter_font" /\ pre.GPOS # None /\ inter_font.GPOS # None
         /\ Len(calls) = 1) =>
        /\ \A i, j \in 1..Len(GPOS.ScriptRecord) :
              GPOS.ScriptRecord[i].ScriptTag = GPOS.ScriptRecord[j].ScriptTag => i = j
        /\ \A s \in 1..Len(pre.GPOS.ScriptRecord) :
              ScriptFeatures(pre.GPOS, pre.GPOS.ScriptRecord[s].ScriptTag)
                  \subseteq ScriptFeatures(GPOS, pre.GPOS.ScriptRecord[s].ScriptTag)
        /\ \A s \in 1..Len(inter_font.GPOS.ScriptRecord) :
              ScriptFeatures(inter_font.GPOS, inter_font.GPOS.ScriptRecord[s].ScriptTag)
                  \subseteq ScriptFeatures(GPOS, inter_font.GPOS.ScriptRecord[s].ScriptTag)

-----------------------------------------------------------------------------
(* apply_gpos_transform and extension lookups *)

\* C26: after apply_gpos_transform the value records and anchors of the
\* subtables held inside extension lookups (type 9, in ExtSubTable, of the
\* kind ExtensionLookupType names) are transformed as those of the lookups
\* of types 1 to 6 are: none is left at its scale before the call.
C26_ExtensionSubtablesScaled ==
    (pc = "apply_gpos_transform" /\ GPOS # None) =>
        \A i \in 1..Len(pre.GPOS.LookupList) :
            pre.GPOS.LookupList[i].LookupType = 9 =>
                \A k \in 1..Len(pre.GPOS.LookupList[i].SubTable) :
                    LET old == pre.GPOS.LookupList[i].SubTable[k]
                        new == GPOS.LookupList[i].SubTable[k]
                        ltype == old.ExtensionLookupType
                        new_records == ValueRecordsOf(new.ExtSubTable, ltype)
                        old_records == ValueRecordsOf(old.ExtSubTable, ltype)
                        new_anchors == AnchorsOf(new.ExtSubTable, ltype)
                        old_anchors == AnchorsOf(old.ExtSubTable, ltype)
                    IN  /\ Len(new_records) = Len(old_records)
                        /\ Len(new_anchors) = Len(old_anchors)
                        /\ \A j \in 1..Len(old_records) :
                              IsTransformed(new_records[j], old_records[j], config.transform)
                        /\ \A j \in 1..Len(old_anchors) :
                              IsTransformed(new_anchors[j], old_anchors[j], config.transform)

-----------------------------------------------------------------------------
(* The output file of a run that raises *)

\* the exceptions the stages raise
RaisedNames == {"ValueError", "NotImplementedError", "KeyError", "RecursionError"}

\* the files written so far: those after the two source fonts
WrittenFiles == {i \in 1..Len(saved) : i > 2}

\* C27: a file is written only by the save that ends a call of extract_font
\* or build_font, after every stage of the call: when a stage has raised, no
\* file exists under the output path of the call, and the files that exist
\* are those of the calls that returned, one each.
C27_NoOutputAfterRaise ==
    /\ pc \in RaisedNames =>
          \A i \in WrittenFiles : saved[i].path # config.output_path
    /\ Cardinality(WrittenFiles) = Cardinality({i \in 1..Len(calls) : calls[i] = "save"})
    /\ \A i \in 1..Len(calls) :
          calls[i] = "save" => (i = Len(calls) \/ calls[i + 1] \in {"extract_font", "build_font"})

\* the merge of build_font raised for the donor glyph that is missing, after
\* both extractions had written their files: there is no file under the
\* output path of build_font
C27_Witness ==
    /\ pc = "ValueError"
    /\ Len(calls) > 0 /\ calls[Len(calls)] = "remove_locl_feature"
    /\ config.output_path = Path("output")
    /\ \E i \in WrittenFiles : saved[i].path = Path("cjk_out")
    /\ \E i \in WrittenFiles : saved[i].path = Path("latin_out")
    /\ \A i \in WrittenFiles : saved[i].path # Path("output")

====
